---------------------------- MODULE Spec2Model ----------------------------
(***************************************************************************)
(* Model of the boolbits package of Fast_BitFilter_MetaData: the BitSet    *)
(* type (boolbits.go), its bitwise algebra and hex codec, and the Entry    *)
(* type of entry.go, its constructors and its field-wise algebra.          *)
(*                                                                         *)
(* A uint64 word is represented by the set of the positions (0 = least     *)
(* significant) of its one bits; a byte by its value 0..255; a Go string   *)
(* by the sequence of its characters; a *BitSet by its index in heap       *)
(* (0 = nil).                                                              *)
(***************************************************************************)
EXTENDS Integers, Sequences, FiniteSets, TLC

VARIABLES heap, mem, entries, last, steps, bitMaps, mapEntries, readers

vars == <<heap, mem, entries, last, steps, bitMaps, mapEntries, readers>>

\* What a call of package boolbits made by a single caller leaves alone:
\* the objects of package bitmapper and the calls of concurrent readers.
others == <<bitMaps, mapEntries, readers>>

-----------------------------------------------------------------------------
(* Bounds of the model.                                                    *)

\* Longest BitSet built, in words.
MaxWords == 2
\* Number of calls in one run.
MaxSteps == 3

\* The largest count of distinct labels given to computeBitLength.
MaxCount == 200

(* Program constants.                                                      *)

\* Bits per word: the 64 of numBits%64, i/64, i%64.
WordBits == 64
\* Bits per hex digit: expectedHexLen := numBits / 4.
NibbleBits == 4
\* Bits per byte: expectedBytes := numBits / 8, the shifts (7-j)*8.
ByteBits == 8

-----------------------------------------------------------------------------
(* Go integer arithmetic: / and % truncate toward zero.                    *)

GoDiv(a, b) == IF a >= 0 THEN a \div b ELSE -((-a) \div b)

GoRem(a, b) == a - b * GoDiv(a, b)

Pow2(k) == 2 ^ k

RECURSIVE SumOver(_, _)
\* Sum of f[x] over the finite set S.
SumOver(S, f) ==
    IF S = {} THEN 0
    ELSE LET x == CHOOSE y \in S : TRUE IN f[x] + SumOver(S \ {x}, f)

-----------------------------------------------------------------------------
(* uint64 words as sets of bit positions.                                  *)

BitPos == 0 .. (WordBits - 1)

\* uint64(0)
ZeroWord == {}

\* ^uint64(0)
AllOnesWord == BitPos

\* uint64(1) << bitIdx
OneShl(bitIdx) == {bitIdx} \cap BitPos

\* a & o, a | o, a ^ o, ^a, a &^ o on uint64
WordAnd(a, o) == a \cap o
WordOr(a, o) == a \cup o
WordXor(a, o) == (a \ o) \cup (o \ a)
WordNot(a) == BitPos \ a
WordAndNot(a, o) == a \ o

\* bits.OnesCount32(uint32(w)) for bits.OnesCount64(w): the upper half of
\* the word is not counted.
OnesCount64_LowHalf(w) == Cardinality(w \cap (0 .. 31))

\* bits.OnesCount64(w)
OnesCount64(w) == Cardinality(w)

\* The bits of a byte value, as positions 0..7.
ByteBitsOf(v) == {p \in 0 .. (ByteBits - 1) : (v \div Pow2(p)) % 2 = 1}

\* uint64(v) << s for a byte v
ByteShl(v, s) == {p + s : p \in ByteBitsOf(v)} \cap BitPos

\* Bit q of the word w, as 0 or 1.
BitValue(w, q) == IF q \in w THEN 1 ELSE 0

\* byte(w >> s): the bits s .. s+7 of w as a value 0..255.
ByteShr(w, s) ==
    BitValue(w, s) + 2 * BitValue(w, s + 1) + 4 * BitValue(w, s + 2)
    + 8 * BitValue(w, s + 3) + 16 * BitValue(w, s + 4) + 32 * BitValue(w, s + 5)
    + 64 * BitValue(w, s + 6) + 128 * BitValue(w, s + 7)

-----------------------------------------------------------------------------
(* encoding/hex, as called at boolbits.go:43 and boolbits.go:87.           *)

\* hex.hextable: the digit of each value 0..15 (index value+1).
HexTable ==
    <<"0", "1", "2", "3", "4", "5", "6", "7",
      "8", "9", "a", "b", "c", "d", "e", "f">>

\* The upper-case digits hex.DecodeString also accepts, values 10..15.
HexUpper == <<"A", "B", "C", "D", "E", "F">>

\* Value of an entry of hex.reverseHexTable that is no hex digit (0xff).
InvalidNibble == 255

\* hex.reverseHexTable[c]
FromHexChar(c) ==
    CASE c = "0" -> 0 [] c = "1" -> 1 [] c = "2" -> 2 [] c = "3" -> 3
      [] c = "4" -> 4 [] c = "5" -> 5 [] c = "6" -> 6 [] c = "7" -> 7
      [] c = "8" -> 8 [] c = "9" -> 9
      [] c \in {"a", "A"} -> 10 [] c \in {"b", "B"} -> 11
      [] c \in {"c", "C"} -> 12 [] c \in {"d", "D"} -> 13
      [] c \in {"e", "E"} -> 14 [] c \in {"f", "F"} -> 15
      [] OTHER -> InvalidNibble

\* hex.DecodeString(s): the bytes of s, two digits per byte, high digit
\* first; an error when a digit is invalid or the length is odd.
DecodeString(s) ==
    LET nPairs == Len(s) \div 2
        bad == \E k \in 1 .. Len(s) : FromHexChar(s[k]) = InvalidNibble
    IN  IF bad \/ Len(s) % 2 = 1
        THEN [data |-> <<>>, err |-> "HexDecodeError"]
        ELSE [data |-> [k \in 1 .. nPairs |->
                           FromHexChar(s[2 * k - 1]) * 16 + FromHexChar(s[2 * k])],
              err |-> "nil"]

\* hex.EncodeToString(buf): two lower-case digits per byte, high digit first.
EncodeToString(buf) ==
    [k \in 1 .. 2 * Len(buf) |->
        IF k % 2 = 1
        THEN HexTable[(buf[(k + 1) \div 2] \div 16) + 1]
        ELSE HexTable[(buf[k \div 2] % 16) + 1]]

-----------------------------------------------------------------------------
(* The program state.                                                      *)
(*   heap     the BitSet structs allocated so far; a *BitSet is an index   *)
(*            into heap, 0 is nil.  The field Words is the slice: the      *)
(*            index in mem of its backing array.                           *)
(*   mem      the []uint64 backing arrays allocated so far (by make).      *)
(*   entries  the Entry structs allocated so far.                          *)
(*   last     the last call: its name, arguments, results.                 *)
(*   steps    the number of calls made.                                    *)
(*   bitMaps  the map[string]*BitSet objects allocated so far (bitmapper). *)
(*   mapEntries  the bitmapper.Entry structs allocated so far.             *)
(*   readers  the call each concurrent reader is in, and how far it is.    *)

Nil == 0

\* No call yet.
NoCall ==
    [op |-> "none", b |-> Nil, o |-> Nil, i |-> 0, hex |-> <<>>,
     ret |-> Nil, val |-> FALSE, err |-> "nil", args |-> <<>>]

\* The record of a call; fields a call does not use keep NoCall's value.
\* For the methods of Entry, b, o and ret are *Entry; args holds the four
\* *BitSet arguments of NewEntry.
Call(op, b, o, i, hex, ret, val, err) ==
    [op |-> op, b |-> b, o |-> o, i |-> i, hex |-> hex,
     ret |-> ret, val |-> val, err |-> err, args |-> <<>>]

\* The BitSet struct literal &BitSet{Words: .., NumBits: .., numWords: ..}.
BitSet(words, numBits, numWords) ==
    [Words |-> words, NumBits |-> numBits, numWords |-> numWords]

\* make([]uint64, numWords): a zeroed array.
MakeWords(numWords) == [k \in 1 .. numWords |-> ZeroWord]

\* b.Words for a *BitSet b: the contents of the slice.
WordsOf(b) == mem[heap[b].Words]

\* b.Words[k] for a *BitSet b and a Go index k (0-based).
WordAt(b, k) == WordsOf(b)[k + 1]

\* Go's bounds check of b.Words[k]: the index expression panics.
IndexPanics(b, k) == k < 0 \/ k >= Len(WordsOf(b))

\* The state after a call that allocates the array words and a BitSet struct
\* over it and returns the pointer to the struct.
Allocate(op, b, o, i, hex, words, numBits, numWords) ==
    /\ mem' = Append(mem, words)
    /\ heap' = Append(heap, BitSet(Len(mem) + 1, numBits, numWords))
    /\ last' = Call(op, b, o, i, hex, Len(heap) + 1, FALSE, "nil")
    /\ steps' = steps + 1
    /\ UNCHANGED others
    /\ UNCHANGED entries

\* The state after a call that returns the error err and no value.
Fail(op, b, o, i, hex, err) ==
    /\ last' = Call(op, b, o, i, hex, Nil, FALSE, err)
    /\ steps' = steps + 1
    /\ UNCHANGED others
    /\ UNCHANGED <<heap, mem, entries>>

-----------------------------------------------------------------------------
(* boolbits.go: constructors.                                              *)

\* The length test with < for <=: a bit length of 0 is accepted.
InvalidNumBits_ZeroAccepted(numBits) == numBits < 0 \/ GoRem(numBits, WordBits) # 0

\* The length test without its %64 part: any positive length is accepted.
InvalidNumBits_NoAlignment(numBits) == numBits <= 0

\* The test numBits <= 0 || numBits%64 != 0 of both constructors.
InvalidNumBits(numBits) == numBits <= 0 \/ GoRem(numBits, WordBits) # 0

NewBitSet(numBits) ==
    IF InvalidNumBits(numBits)
    THEN Fail("NewBitSet", Nil, Nil, numBits, <<>>, "InvalidLength")
    ELSE LET numWords == GoDiv(numBits, WordBits)
         IN  Allocate("NewBitSet", Nil, Nil, numBits, <<>>,
                      MakeWords(numWords), numBits, numWords)

\* The word loop with shift j*8 for (7-j)*8: the first byte is the least
\* significant.
WordFromBytes_LittleEndian(data, i) ==
    LET offset == i * 8
    IN  UNION {ByteShl(data[offset + j + 1], j * ByteBits) : j \in 0 .. 7}

\* The loop of NewBitSetFromHex: word i of the bytes data (Go index i).
WordFromBytes(data, i) ==
    LET offset == i * 8
    IN  UNION {ByteShl(data[offset + j + 1], (7 - j) * ByteBits) : j \in 0 .. 7}

\* NewBitSetFromHex with hex.DecodeString called before the length test: a
\* string of the wrong length with a character that is no hex digit is
\* reported as a decoding error.
DecodeHex_DecodeFirst(numBits, hexStr) ==
    IF InvalidNumBits(numBits)
    THEN [words |-> <<>>, err |-> "InvalidLength"]
    ELSE LET expectedHexLen == GoDiv(numBits, NibbleBits)
             dec == DecodeString(hexStr)
             numWords == GoDiv(numBits, WordBits)
         IN  IF dec.err # "nil"
             THEN [words |-> <<>>, err |-> dec.err]
             ELSE IF Len(hexStr) # expectedHexLen
             THEN [words |-> <<>>, err |-> "HexLengthMismatch"]
             ELSE [words |-> [k \in 1 .. numWords |-> WordFromBytes(dec.data, k - 1)],
                   err |-> "nil"]

\* The value NewBitSetFromHex computes: the words and the error.
DecodeHex(numBits, hexStr) ==
    IF InvalidNumBits(numBits)
    THEN [words |-> <<>>, err |-> "InvalidLength"]
    ELSE LET expectedHexLen == GoDiv(numBits, NibbleBits)
             dec == DecodeString(hexStr)
             expectedBytes == GoDiv(numBits, ByteBits)
             numWords == GoDiv(numBits, WordBits)
         IN  IF Len(hexStr) # expectedHexLen
             THEN [words |-> <<>>, err |-> "HexLengthMismatch"]
             ELSE IF dec.err # "nil"
             THEN [words |-> <<>>, err |-> dec.err]
             ELSE IF Len(dec.data) # expectedBytes
             THEN [words |-> <<>>, err |-> "InternalError"]
             ELSE [words |-> [k \in 1 .. numWords |-> WordFromBytes(dec.data, k - 1)],
                   err |-> "nil"]

NewBitSetFromHex(numBits, hexStr) ==
    LET r == DecodeHex(numBits, hexStr)
    IN  IF r.err # "nil"
        THEN Fail("NewBitSetFromHex", Nil, Nil, numBits, hexStr, r.err)
        ELSE Allocate("NewBitSetFromHex", Nil, Nil, numBits, hexStr,
                      r.words, numBits, GoDiv(numBits, WordBits))

-----------------------------------------------------------------------------
(* boolbits.go: reading a BitSet.                                          *)

\* The bytes of a word with the shifts in the opposite order: least
\* significant byte first.
WordBytes_LittleEndian(w) == [j \in 1 .. 8 |-> ByteShr(w, (j - 1) * ByteBits)]

\* The 8 bytes ToHex writes for the word w, most significant first.
WordBytes(w) == [j \in 1 .. 8 |-> ByteShr(w, (8 - j) * ByteBits)]

RECURSIVE BufOf_LastWordFirst(_, _)
\* The buffer with offset (numWords-1-i)*8 for i*8: the last word first.
BufOf_LastWordFirst(b, n) ==
    IF n = 0 THEN <<>>
    ELSE WordBytes(WordAt(b, n - 1)) \o BufOf_LastWordFirst(b, n - 1)

RECURSIVE BufOf(_, _)
\* The buffer ToHex fills: the bytes of words 0 .. n-1 of b.
BufOf(b, n) ==
    IF n = 0 THEN <<>> ELSE BufOf(b, n - 1) \o WordBytes(WordAt(b, n - 1))

ToHex(b) == EncodeToString(BufOf(b, heap[b].numWords))

\* String(): "0x" + b.ToHex()
String(b) == <<"0", "x">> \o ToHex(b)

\* The index test with > for >=: the index b.NumBits is accepted.
OutOfRange_OffByOne(b, i) == i < 0 \/ i > heap[b].NumBits

\* The test i < 0 || i >= b.NumBits of SetBit, ClearBit and TestBit.
OutOfRange(b, i) == i < 0 \/ i >= heap[b].NumBits

\* TestBit's two results.
TestBit(b, i) ==
    IF OutOfRange(b, i)
    THEN [val |-> FALSE, err |-> "IndexOutOfRange"]
    ELSE LET wordIdx == GoDiv(i, WordBits)
             bitIdx == GoRem(i, WordBits)
         IN  IF IndexPanics(b, wordIdx)
             THEN [val |-> FALSE, err |-> "panic"]
             ELSE [val |-> bitIdx \in WordAt(b, wordIdx), err |-> "nil"]

\* The loop of IsZero over the words of a slice.
IsZeroWords(words) == \A k \in 1 .. Len(words) : words[k] = ZeroWord

IsZero(b) == IsZeroWords(WordsOf(b))

\* The loop of CountOnes over the words of a slice.
CountOnesWords(words) ==
    SumOver(1 .. Len(words), [k \in 1 .. Len(words) |-> OnesCount64(words[k])])

CountOnes(b) == CountOnesWords(WordsOf(b))

\* The size test with > for !=: a shorter receiver is accepted.
ensureSameSize_OnlyLonger(a, o) ==
    IF heap[a].NumBits > heap[o].NumBits THEN "SizeMismatch" ELSE "nil"

\* The error of ensureSameSize(a, o).
ensureSameSize(a, o) ==
    IF heap[a].NumBits # heap[o].NumBits THEN "SizeMismatch" ELSE "nil"

\* Equals with the loop bound numWords-1: the last word is not compared.
EqualsValue_LastWordSkipped(bv, ov) ==
    IF bv.NumBits # ov.NumBits THEN FALSE
    ELSE \A k \in 1 .. (bv.numWords - 1) : bv.Words[k] = ov.Words[k]

\* Equals on the contents of two BitSets: the struct fields NumBits and
\* numWords and the words of the slice.
EqualsValue(bv, ov) ==
    IF bv.NumBits # ov.NumBits THEN FALSE
    ELSE \A k \in 1 .. bv.numWords : bv.Words[k] = ov.Words[k]

\* The contents of the BitSet b points to.
Deref(b) == BitSet(WordsOf(b), heap[b].NumBits, heap[b].numWords)

Equals(b, o) == EqualsValue(Deref(b), Deref(o))

-----------------------------------------------------------------------------
(* boolbits.go: SetBit, ClearBit, and the call of TestBit.                 *)

\* The state after a call on b that stores w in b.Words[wordIdx] and
\* returns nil.
StoreWord(op, b, i, wordIdx, w) ==
    /\ mem' = [mem EXCEPT ![heap[b].Words][wordIdx + 1] = w]
    /\ last' = Call(op, b, Nil, i, <<>>, Nil, FALSE, "nil")
    /\ steps' = steps + 1
    /\ UNCHANGED others
    /\ UNCHANGED <<heap, entries>>

SetBit(b, i) ==
    IF OutOfRange(b, i)
    THEN Fail("SetBit", b, Nil, i, <<>>, "IndexOutOfRange")
    ELSE LET wordIdx == GoDiv(i, WordBits)
             bitIdx == GoRem(i, WordBits)
         IN  IF IndexPanics(b, wordIdx)
             THEN Fail("SetBit", b, Nil, i, <<>>, "panic")
             ELSE StoreWord("SetBit", b, i, wordIdx,
                            WordOr(WordAt(b, wordIdx), OneShl(bitIdx)))

\* ClearBit with ^= for &^=: the bit is toggled.
ClearBit_Toggle(b, i) ==
    IF OutOfRange(b, i)
    THEN Fail("ClearBit", b, Nil, i, <<>>, "IndexOutOfRange")
    ELSE LET wordIdx == GoDiv(i, WordBits)
             bitIdx == GoRem(i, WordBits)
         IN  StoreWord("ClearBit", b, i, wordIdx,
                       WordXor(WordAt(b, wordIdx), OneShl(bitIdx)))

ClearBit(b, i) ==
    IF OutOfRange(b, i)
    THEN Fail("ClearBit", b, Nil, i, <<>>, "IndexOutOfRange")
    ELSE LET wordIdx == GoDiv(i, WordBits)
             bitIdx == GoRem(i, WordBits)
         IN  IF IndexPanics(b, wordIdx)
             THEN Fail("ClearBit", b, Nil, i, <<>>, "panic")
             ELSE StoreWord("ClearBit", b, i, wordIdx,
                            WordAndNot(WordAt(b, wordIdx), OneShl(bitIdx)))

\* A call of TestBit: it writes nothing and returns TestBit(b, i).
CallTestBit(b, i) ==
    /\ last' = Call("TestBit", b, Nil, i, <<>>, Nil, TestBit(b, i).val, TestBit(b, i).err)
    /\ steps' = steps + 1
    /\ UNCHANGED others
    /\ UNCHANGED <<heap, mem, entries>>

-----------------------------------------------------------------------------
(* boolbits.go: And, Or, Xor, Not.                                         *)

\* And with result := b.Words for make: the result is computed in, and
\* shares, the receiver's array.
And_SharedResult(b, o) ==
    IF ensureSameSize(b, o) # "nil"
    THEN Fail("And", b, o, 0, <<>>, ensureSameSize(b, o))
    ELSE /\ mem' = [mem EXCEPT ![heap[b].Words] =
                        [k \in 1 .. heap[b].numWords |->
                            WordAnd(WordAt(b, k - 1), WordAt(o, k - 1))]]
         /\ heap' = Append(heap, BitSet(heap[b].Words, heap[b].NumBits, heap[b].numWords))
         /\ last' = Call("And", b, o, 0, <<>>, Len(heap) + 1, FALSE, "nil")
         /\ steps' = steps + 1
         /\ UNCHANGED others
         /\ UNCHANGED entries

\* The loop of And with the word of the receiver stored as the result.
AndWords_ReceiverCopied(b, o) ==
    [k \in 1 .. heap[b].numWords |-> WordAt(b, k - 1)]

\* The result loop of And: result[i] = b.Words[i] & o.Words[i].
AndWords(b, o) ==
    [k \in 1 .. heap[b].numWords |-> WordAnd(WordAt(b, k - 1), WordAt(o, k - 1))]

And(b, o) ==
    IF ensureSameSize(b, o) # "nil"
    THEN Fail("And", b, o, 0, <<>>, ensureSameSize(b, o))
    ELSE Allocate("And", b, o, 0, <<>>, AndWords(b, o),
                  heap[b].NumBits, heap[b].numWords)

\* The result loop of Or with ^ for |.
OrWords_AsXor(b, o) ==
    [k \in 1 .. heap[b].numWords |-> WordXor(WordAt(b, k - 1), WordAt(o, k - 1))]

\* The result loop of Or: result[i] = b.Words[i] | o.Words[i].
OrWords(b, o) ==
    [k \in 1 .. heap[b].numWords |-> WordOr(WordAt(b, k - 1), WordAt(o, k - 1))]

Or(b, o) ==
    IF ensureSameSize(b, o) # "nil"
    THEN Fail("Or", b, o, 0, <<>>, ensureSameSize(b, o))
    ELSE Allocate("Or", b, o, 0, <<>>, OrWords(b, o),
                  heap[b].NumBits, heap[b].numWords)

\* The result loop of Xor: result[i] = b.Words[i] ^ o.Words[i].
XorWords(b, o) ==
    [k \in 1 .. heap[b].numWords |-> WordXor(WordAt(b, k - 1), WordAt(o, k - 1))]

\* Xor with | for ^.
Xor_AsOr(b, o) ==
    IF ensureSameSize(b, o) # "nil"
    THEN Fail("Xor", b, o, 0, <<>>, ensureSameSize(b, o))
    ELSE Allocate("Xor", b, o, 0, <<>>,
                  [k \in 1 .. heap[b].numWords |->
                      WordOr(WordAt(b, k - 1), WordAt(o, k - 1))],
                  heap[b].NumBits, heap[b].numWords)

Xor(b, o) ==
    IF ensureSameSize(b, o) # "nil"
    THEN Fail("Xor", b, o, 0, <<>>, ensureSameSize(b, o))
    ELSE Allocate("Xor", b, o, 0, <<>>, XorWords(b, o),
                  heap[b].NumBits, heap[b].numWords)

\* The result loop of Not without its last word, which stays zero.
NotWords_LastWordKept(b) ==
    [k \in 1 .. heap[b].numWords |->
        IF k = heap[b].numWords THEN ZeroWord ELSE WordNot(WordAt(b, k - 1))]

\* The result loop of Not: result[i] = ^b.Words[i].
NotWords(b) == [k \in 1 .. heap[b].numWords |-> WordNot(WordAt(b, k - 1))]

Not(b) ==
    Allocate("Not", b, Nil, 0, <<>>, NotWords(b),
             heap[b].NumBits, heap[b].numWords)

-----------------------------------------------------------------------------
(* entry.go: the Entry type.  A *Entry is an index into entries, 0 is nil. *)

\* The Entry struct literal.
Entry(domain, group, name, value) ==
    [Domain |-> domain, Group |-> group, Name |-> name, Value |-> value]

\* The length test without its %64 part: any positive length is accepted.
InvalidBitLen_NoAlignment(bitLen) == bitLen <= 0

\* The test bitLen <= 0 || bitLen%64 != 0 of NewAllOnesEntry.
InvalidBitLen(bitLen) == bitLen <= 0 \/ GoRem(bitLen, WordBits) # 0

\* NewAllOnesEntry with the loop bound numWords-1 in fillAllOnes: the last
\* word stays zero.
NewAllOnesEntry_LastWordZero(bitLen) ==
    IF InvalidBitLen(bitLen)
    THEN Fail("NewAllOnesEntry", Nil, Nil, bitLen, <<>>, "InvalidLength")
    ELSE LET numWords == GoDiv(bitLen, WordBits)
             ones == [k \in 1 .. numWords |->
                         IF k = numWords THEN ZeroWord ELSE AllOnesWord]
             m == Len(mem)
             h == Len(heap)
         IN  /\ mem' = mem \o <<ones, ones, ones, ones>>
             /\ heap' = heap \o [f \in 1 .. 4 |-> BitSet(m + f, bitLen, numWords)]
             /\ entries' = Append(entries, Entry(h + 1, h + 2, h + 3, h + 4))
             /\ last' = Call("NewAllOnesEntry", Nil, Nil, bitLen, <<>>,
                             Len(entries) + 1, FALSE, "nil")
             /\ steps' = steps + 1
             /\ UNCHANGED others

\* NewAllOnesEntry with fillAllOnes called once and its result stored in
\* all four fields.
NewAllOnesEntry_OneVector(bitLen) ==
    IF InvalidBitLen(bitLen)
    THEN Fail("NewAllOnesEntry", Nil, Nil, bitLen, <<>>, "InvalidLength")
    ELSE LET numWords == GoDiv(bitLen, WordBits)
             ones == [k \in 1 .. numWords |-> AllOnesWord]
             h == Len(heap)
         IN  /\ mem' = Append(mem, ones)
             /\ heap' = Append(heap, BitSet(Len(mem) + 1, bitLen, numWords))
             /\ entries' = Append(entries, Entry(h + 1, h + 1, h + 1, h + 1))
             /\ last' = Call("NewAllOnesEntry", Nil, Nil, bitLen, <<>>,
                             Len(entries) + 1, FALSE, "nil")
             /\ steps' = steps + 1
             /\ UNCHANGED others

NewAllOnesEntry(bitLen) ==
    IF InvalidBitLen(bitLen)
    THEN Fail("NewAllOnesEntry", Nil, Nil, bitLen, <<>>, "InvalidLength")
    ELSE LET numWords == GoDiv(bitLen, WordBits)
             \* fillAllOnes(): a new array and a new struct at each call
             ones == [k \in 1 .. numWords |-> AllOnesWord]
             m == Len(mem)
             h == Len(heap)
         IN  /\ mem' = mem \o <<ones, ones, ones, ones>>
             /\ heap' = heap \o [f \in 1 .. 4 |-> BitSet(m + f, bitLen, numWords)]
             /\ entries' = Append(entries, Entry(h + 1, h + 2, h + 3, h + 4))
             /\ last' = Call("NewAllOnesEntry", Nil, Nil, bitLen, <<>>,
                             Len(entries) + 1, FALSE, "nil")
             /\ steps' = steps + 1
             /\ UNCHANGED others

\* The fields of Entry, in the order of the struct and of the checks.
FieldNames == <<"Domain", "Group", "Name", "Value">>

\* The *BitSet in the k-th field of the Entry e points to.
Field(e, k) == entries[e][FieldNames[k]]

\* NewEntry without the nil test of valueBS.
NewEntry_ValueUnchecked(domainBS, groupBS, nameBS, valueBS) ==
    LET given == <<domainBS, groupBS, nameBS, valueBS>>
    IN  IF domainBS = Nil \/ groupBS = Nil \/ nameBS = Nil
        THEN /\ last' = [Call("NewEntry", Nil, Nil, 0, <<>>, Nil, FALSE, "MissingField")
                            EXCEPT !.args = given]
             /\ steps' = steps + 1
             /\ UNCHANGED others
             /\ UNCHANGED <<heap, mem, entries>>
        ELSE /\ entries' = Append(entries, Entry(domainBS, groupBS, nameBS, valueBS))
             /\ last' = [Call("NewEntry", Nil, Nil, 0, <<>>, Len(entries) + 1, FALSE, "nil")
                            EXCEPT !.args = given]
             /\ steps' = steps + 1
             /\ UNCHANGED others
             /\ UNCHANGED <<heap, mem>>

\* NewEntry with a copy of each BitSet given in the fields of the Entry.
NewEntry_FieldsCopied(domainBS, groupBS, nameBS, valueBS) ==
    LET given == <<domainBS, groupBS, nameBS, valueBS>>
    IN  IF domainBS = Nil \/ groupBS = Nil \/ nameBS = Nil \/ valueBS = Nil
        THEN /\ last' = [Call("NewEntry", Nil, Nil, 0, <<>>, Nil, FALSE, "MissingField")
                            EXCEPT !.args = given]
             /\ steps' = steps + 1
             /\ UNCHANGED others
             /\ UNCHANGED <<heap, mem, entries>>
        ELSE /\ mem' = mem \o [k \in 1 .. 4 |-> WordsOf(given[k])]
             /\ heap' = heap \o [k \in 1 .. 4 |->
                                    BitSet(Len(mem) + k, heap[given[k]].NumBits,
                                           heap[given[k]].numWords)]
             /\ entries' = Append(entries, Entry(Len(heap) + 1, Len(heap) + 2,
                                                 Len(heap) + 3, Len(heap) + 4))
             /\ last' = [Call("NewEntry", Nil, Nil, 0, <<>>, Len(entries) + 1, FALSE, "nil")
                            EXCEPT !.args = given]
             /\ steps' = steps + 1
             /\ UNCHANGED others

\* NewEntry(domainBS, groupBS, nameBS, valueBS): the Entry holds the four
\* pointers it is given.
NewEntry(domainBS, groupBS, nameBS, valueBS) ==
    LET given == <<domainBS, groupBS, nameBS, valueBS>>
    IN  IF domainBS = Nil \/ groupBS = Nil \/ nameBS = Nil \/ valueBS = Nil
        THEN /\ last' = [Call("NewEntry", Nil, Nil, 0, <<>>, Nil, FALSE, "MissingField")
                            EXCEPT !.args = given]
             /\ steps' = steps + 1
             /\ UNCHANGED others
             /\ UNCHANGED <<heap, mem, entries>>
        ELSE /\ entries' = Append(entries, Entry(domainBS, groupBS, nameBS, valueBS))
             /\ last' = [Call("NewEntry", Nil, Nil, 0, <<>>, Len(entries) + 1, FALSE, "nil")
                            EXCEPT !.args = given]
             /\ steps' = steps + 1
             /\ UNCHANGED others
             /\ UNCHANGED <<heap, mem>>

\* Entry.Equals without the comparison of Value.
EntryEqualsValue_ValueSkipped(e, o) ==
    IF e = Nil \/ o = Nil THEN FALSE
    ELSE \A k \in 1 .. 3 : Equals(Field(e, k), Field(o, k))

\* The result of e.Equals(o) for two *Entry.
EntryEqualsValue(e, o) ==
    IF e = Nil \/ o = Nil THEN FALSE
    ELSE \A k \in 1 .. 4 : Equals(Field(e, k), Field(o, k))

\* A call of e.Equals(o): it writes nothing.
EntryEquals(e, o) ==
    /\ last' = Call("Entry.Equals", e, o, 0, <<>>, Nil, EntryEqualsValue(e, o), "nil")
    /\ steps' = steps + 1
    /\ UNCHANGED others
    /\ UNCHANGED <<heap, mem, entries>>

\* The error that names the k-th field, whose bit lengths differ.
FieldSizeMismatch(k) ==
    <<"FieldSizeMismatch:Domain", "FieldSizeMismatch:Group",
      "FieldSizeMismatch:Name", "FieldSizeMismatch:Value">>[k]

\* The least element of a set of numbers.
Least(S) == CHOOSE k \in S : \A j \in S : k <= j

\* The state after the four field operations of And, Or, Xor or Not have
\* returned the arrays words[1..4]: four new BitSets with the lengths of the
\* fields of e, and a new Entry that holds them.
AllocateEntry(op, e, o, words) ==
    /\ mem' = mem \o words
    /\ heap' = heap \o [k \in 1 .. 4 |->
                            BitSet(Len(mem) + k, heap[Field(e, k)].NumBits,
                                   heap[Field(e, k)].numWords)]
    /\ entries' = Append(entries, Entry(Len(heap) + 1, Len(heap) + 2,
                                        Len(heap) + 3, Len(heap) + 4))
    /\ last' = Call(op, e, o, 0, <<>>, Len(entries) + 1, FALSE, "nil")
    /\ steps' = steps + 1
    /\ UNCHANGED others

\* The state after the field operation on the k-th fields has returned an
\* error: the results of the fields before it are allocated, no Entry is.
FieldOpFails(op, e, o, k, words) ==
    /\ mem' = mem \o [j \in 1 .. (k - 1) |-> words[j]]
    /\ heap' = heap \o [j \in 1 .. (k - 1) |->
                            BitSet(Len(mem) + j, heap[Field(e, j)].NumBits,
                                   heap[Field(e, j)].numWords)]
    /\ last' = Call(op, e, o, 0, <<>>, Nil, FALSE, "FieldOpError")
    /\ steps' = steps + 1
    /\ UNCHANGED others
    /\ UNCHANGED entries

\* The field operations of Entry.Xor with e.Group.Or(o.Group) for
\* e.Group.Xor(o.Group).
FieldWords_XorGroupAsOr(op, e, o, k) ==
    CASE op = "Entry.And" -> AndWords(Field(e, k), Field(o, k))
      [] op = "Entry.Or" -> OrWords(Field(e, k), Field(o, k))
      [] op = "Entry.Xor" -> IF k = 2 THEN OrWords(Field(e, k), Field(o, k))
                             ELSE XorWords(Field(e, k), Field(o, k))

\* The words of the field operation of op on the k-th fields of e and o:
\* e.Domain.And(o.Domain), ..., e.Value.Xor(o.Value).
FieldWords(op, e, o, k) ==
    CASE op = "Entry.And" -> AndWords(Field(e, k), Field(o, k))
      [] op = "Entry.Or" -> OrWords(Field(e, k), Field(o, k))
      [] op = "Entry.Xor" -> XorWords(Field(e, k), Field(o, k))

\* Entry.And/Or/Xor with each length test made just before the operation on
\* that field, so that the operations on the fields before the one that
\* differs have been applied when the error is returned.
EntryBinary_TestPerField(op, e, o) ==
    IF e = Nil \/ o = Nil
    THEN Fail(op, e, o, 0, <<>>, "MissingField")
    ELSE LET differ == {k \in 1 .. 4 :
                           heap[Field(e, k)].NumBits # heap[Field(o, k)].NumBits}
             upTo == IF differ = {} THEN 4 ELSE Least(differ) - 1
             words == [k \in 1 .. upTo |-> FieldWords(op, e, o, k)]
         IN  IF differ # {}
             THEN /\ mem' = mem \o words
                  /\ heap' = heap \o [j \in 1 .. upTo |->
                                          BitSet(Len(mem) + j, heap[Field(e, j)].NumBits,
                                                 heap[Field(e, j)].numWords)]
                  /\ last' = Call(op, e, o, 0, <<>>, Nil, FALSE,
                                  FieldSizeMismatch(Least(differ)))
                  /\ steps' = steps + 1
                  /\ UNCHANGED others
                  /\ UNCHANGED entries
             ELSE AllocateEntry(op, e, o, words)

\* Entry.And, Entry.Or and Entry.Xor, which differ in the BitSet operation
\* they apply to each pair of fields: the nil test, the four length tests
\* in the order Domain, Group, Name, Value, then the four operations, each
\* of which starts with ensureSameSize.
EntryBinary(op, e, o) ==
    IF e = Nil \/ o = Nil
    THEN Fail(op, e, o, 0, <<>>, "MissingField")
    ELSE LET differ == {k \in 1 .. 4 :
                           heap[Field(e, k)].NumBits # heap[Field(o, k)].NumBits}
             failing == {k \in 1 .. 4 : ensureSameSize(Field(e, k), Field(o, k)) # "nil"}
             words == [k \in 1 .. 4 |-> FieldWords(op, e, o, k)]
         IN  IF differ # {}
             THEN Fail(op, e, o, 0, <<>>, FieldSizeMismatch(Least(differ)))
             ELSE IF failing # {}
             THEN FieldOpFails(op, e, o, Least(failing), words)
             ELSE AllocateEntry(op, e, o, words)

EntryAnd(e, o) == EntryBinary("Entry.And", e, o)

EntryOr(e, o) == EntryBinary("Entry.Or", e, o)

EntryXor(e, o) == EntryBinary("Entry.Xor", e, o)

EntryNot(e) ==
    IF e = Nil
    THEN Fail("Entry.Not", e, Nil, 0, <<>>, "MissingField")
    ELSE AllocateEntry("Entry.Not", e, Nil, [k \in 1 .. 4 |-> NotWords(Field(e, k))])

\* NewAllZerosEntry(bitLen): four BitSets built as NewBitSet(bitLen) builds
\* them, under the length rule of NewBitSet.
NewAllZerosEntry(bitLen) ==
    IF InvalidNumBits(bitLen)
    THEN Fail("NewAllZerosEntry", Nil, Nil, bitLen, <<>>, "InvalidLength")
    ELSE LET numWords == GoDiv(bitLen, WordBits)
             m == Len(mem)
             h == Len(heap)
         IN  /\ mem' = mem \o [f \in 1 .. 4 |-> MakeWords(numWords)]
             /\ heap' = heap \o [f \in 1 .. 4 |-> BitSet(m + f, bitLen, numWords)]
             /\ entries' = Append(entries, Entry(h + 1, h + 2, h + 3, h + 4))
             /\ last' = Call("NewAllZerosEntry", Nil, Nil, bitLen, <<>>,
                             Len(entries) + 1, FALSE, "nil")
             /\ steps' = steps + 1
             /\ UNCHANGED others

-----------------------------------------------------------------------------
(* Package bitmapper (bitmapper_test.go): GenerateBitMaps with its helpers *)
(* dedup, computeBitLength and assign, and NewEntry.                       *)

\* The bit length with every positive count rounded up to the next
\* multiple of 64, the multiples of 64 included.
computeBitLength_NextMultiple(count) ==
    IF count <= 0 THEN WordBits ELSE (GoDiv(count, WordBits) + 1) * WordBits

\* The bit length without rounding: the count itself when it is positive.
computeBitLength_Unrounded(count) == IF count <= 0 THEN WordBits ELSE count

\* computeBitLength(count), the helper of GenerateBitMaps.
computeBitLength(count) ==
    IF count <= 0 THEN WordBits
    ELSE IF GoRem(count, WordBits) = 0 THEN count
    ELSE (GoDiv(count, WordBits) + 1) * WordBits

\* A call of computeBitLength(count): its result is recorded in last.ret.
CallComputeBitLength(count) ==
    /\ last' = Call("computeBitLength", Nil, Nil, count, <<>>,
                    computeBitLength(count), FALSE, "nil")
    /\ steps' = steps + 1
    /\ UNCHANGED <<heap, mem, entries, others>>

\* dedup with a value kept at its last occurrence for its first.
dedup_LastOccurrence(input) ==
    LET indexed == [k \in 1 .. Len(input) |-> <<k, input[k]>>] \o <<>>
        notLater(p) == \A j \in (p[1] + 1) .. Len(input) : input[j] # p[2]
        unique == SelectSeq(indexed, notLater)
    IN  [r \in 1 .. Len(unique) |-> unique[r][2]] \o <<>>

\* dedup(input), the helper of GenerateBitMaps: the values of input in the
\* order of their first occurrence, each once.
dedup(input) ==
    LET indexed == [k \in 1 .. Len(input) |-> <<k, input[k]>>] \o <<>>
        unseen(p) == \A j \in 1 .. (p[1] - 1) : input[j] # p[2]
        unique == SelectSeq(indexed, unseen)
    IN  [r \in 1 .. Len(unique) |-> unique[r][2]] \o <<>>

\* The values of a slice, as a set.
Values(list) == {list[r] : r \in 1 .. Len(list)}

\* The index idx at which val occurs in a list without duplicates (0-based,
\* as in "for idx, val := range uniqueList").
IndexOf(uniqueList, val) == (CHOOSE r \in 1 .. Len(uniqueList) : uniqueList[r] = val) - 1

\* The BitSet that NewBitSet(bitlen) followed by SetBit(idx) builds, as a
\* value: the array is held in the field Words.
SingleBit(bitlen, idx) ==
    LET numWords == GoDiv(bitlen, WordBits)
    IN  BitSet([MakeWords(numWords) EXCEPT
                    ![GoDiv(idx, WordBits) + 1] = WordOr(@, OneShl(GoRem(idx, WordBits)))],
               bitlen, numWords)

\* assign(uniqueList), the helper of GenerateBitMaps: the error it returns
\* and the BitSets it has allocated when it returns, in the order of the
\* loop.  NewBitSet fails in the first round when bitlen is no valid length;
\* SetBit fails in the first round whose idx is out of range, after
\* NewBitSet has built the (empty) BitSet of that round.
assign(uniqueList) ==
    LET count == Len(uniqueList)
        bitlen == computeBitLength(count)
        outOfRange == {idx \in 0 .. (count - 1) : idx < 0 \/ idx >= bitlen}
    IN  IF count = 0
        THEN [err |-> "nil", built |-> <<>>]
        ELSE IF InvalidNumBits(bitlen)
        THEN [err |-> "InvalidLength", built |-> <<>>]
        ELSE IF outOfRange # {}
        THEN [err |-> "IndexOutOfRange",
              built |-> [r \in 1 .. (Least(outOfRange) + 1) |->
                            IF r - 1 = Least(outOfRange)
                            THEN BitSet(MakeWords(GoDiv(bitlen, WordBits)), bitlen,
                                        GoDiv(bitlen, WordBits))
                            ELSE SingleBit(bitlen, r - 1)] \o <<>>]
        ELSE [err |-> "nil",
              built |-> [r \in 1 .. count |-> SingleBit(bitlen, r - 1)] \o <<>>]

\* The four dedup calls with one seen map for all of them: a label of a
\* slice that an earlier slice holds is left out.
UniqueLists_SharedSeen(domains, metadataGroupNames, metadataNames, metadataValues) ==
    LET given == <<domains, metadataGroupNames, metadataNames, metadataValues>>
        unseen(k) == LET earlier == UNION {Values(given[j]) : j \in 1 .. (k - 1)}
                         new(val) == val \notin earlier
                     IN  SelectSeq(dedup(given[k]), new)
    IN  <<unseen(1), unseen(2), unseen(3), unseen(4)>>

\* uniqueDomains, uniqueGroupNames, uniqueNames, uniqueValues: dedup of each
\* slice, with a seen map of its own.
UniqueLists(domains, metadataGroupNames, metadataNames, metadataValues) ==
    <<dedup(domains), dedup(metadataGroupNames), dedup(metadataNames), dedup(metadataValues)>>

\* What GenerateBitMaps computes when `allocated' BitSets have been
\* allocated before: dedup of the four slices, then assign for each in the
\* order domain, group, name, value; the first error ends it.  The result
\* holds the error, the BitSets allocated until then (in order), and the
\* four maps, whose values are the pointers the BitSets get.
GenerateBitMapsAt(allocated, domains, metadataGroupNames, metadataNames, metadataValues) ==
    LET unique == UniqueLists(domains, metadataGroupNames, metadataNames, metadataValues)
        out == <<assign(unique[1]), assign(unique[2]), assign(unique[3]), assign(unique[4])>>
        failing == {k \in 1 .. 4 : out[k].err # "nil"}
        upTo == IF failing = {} THEN 4 ELSE Least(failing)
        made == [k \in 1 .. 4 |-> IF k <= upTo THEN out[k].built ELSE <<>>] \o <<>>
        base == [k \in 1 .. 4 |->
                    allocated + SumOver(1 .. (k - 1), [j \in 1 .. 4 |-> Len(made[j])])] \o <<>>
        bsMap == [k \in 1 .. 4 |->
                     [val \in Values(unique[k]) |-> base[k] + IndexOf(unique[k], val) + 1]
                     @@ <<>>] \o <<>>
    IN  [err |-> IF failing = {} THEN "nil" ELSE out[upTo].err,
         built |-> made[1] \o made[2] \o made[3] \o made[4],
         maps |-> bsMap]

\* The result of GenerateBitMaps in the current state.
GenerateBitMapsResult(domains, metadataGroupNames, metadataNames, metadataValues) ==
    GenerateBitMapsAt(Len(heap), domains, metadataGroupNames, metadataNames, metadataValues)

\* GenerateBitMaps: on success four map objects are allocated and the
\* pointers to them are returned (last.ret); on an error four nil maps are
\* returned.  last.args holds the four slices.
GenerateBitMaps(domains, metadataGroupNames, metadataNames, metadataValues) ==
    \E res \in {GenerateBitMapsResult(domains, metadataGroupNames, metadataNames,
                                      metadataValues)} :
        LET m == Len(bitMaps)
        IN  /\ mem' = mem \o [j \in 1 .. Len(res.built) |-> res.built[j].Words]
            /\ heap' = heap \o [j \in 1 .. Len(res.built) |->
                                   BitSet(Len(mem) + j, res.built[j].NumBits,
                                          res.built[j].numWords)]
            /\ bitMaps' = IF res.err = "nil" THEN bitMaps \o res.maps ELSE bitMaps
            /\ last' = [Call("GenerateBitMaps", Nil, Nil, 0, <<>>,
                             IF res.err = "nil" THEN <<m + 1, m + 2, m + 3, m + 4>>
                             ELSE <<Nil, Nil, Nil, Nil>>,
                             FALSE, res.err)
                        EXCEPT !.args = <<domains, metadataGroupNames, metadataNames,
                                          metadataValues>>]
            /\ steps' = steps + 1
            /\ UNCHANGED <<entries, mapEntries, readers>>

\* The error of NewEntry that names the k-th category; the missing key is
\* the k-th key of the call.
KeyNotFound(k) ==
    <<"KeyNotFound:domain", "KeyNotFound:group", "KeyNotFound:name", "KeyNotFound:value">>[k]

\* The Entry struct of package bitmapper.
MapEntry(domain, group, name, value) ==
    [Domain |-> domain, Group |-> group, Name |-> name, Value |-> value]

\* The state after NewEntry has looked up keys[k] in bitMaps[maps[k]] for
\* k = 1, ..., 4: the first lookup that misses returns its error; otherwise
\* an Entry is allocated that holds the pointers found.  last.args holds
\* the keys and the maps given; for an error, last.i is the number of the
\* category and last.hex the key that the message holds.
LookUpAll(keys, maps, given) ==
    LET missed == {k \in 1 .. 4 : keys[k] \notin DOMAIN bitMaps[maps[k]]}
    IN  IF missed # {}
        THEN /\ last' = [Call("bitmapper.NewEntry", Nil, Nil, Least(missed),
                              keys[Least(missed)], Nil, FALSE, KeyNotFound(Least(missed)))
                         EXCEPT !.args = given]
             /\ steps' = steps + 1
             /\ UNCHANGED <<heap, mem, entries, bitMaps, mapEntries, readers>>
        ELSE /\ mapEntries' = Append(mapEntries,
                                     MapEntry(bitMaps[maps[1]][keys[1]],
                                              bitMaps[maps[2]][keys[2]],
                                              bitMaps[maps[3]][keys[3]],
                                              bitMaps[maps[4]][keys[4]]))
             /\ last' = [Call("bitmapper.NewEntry", Nil, Nil, 0, <<>>,
                              Len(mapEntries) + 1, FALSE, "nil")
                         EXCEPT !.args = given]
             /\ steps' = steps + 1
             /\ UNCHANGED <<heap, mem, entries, bitMaps, readers>>

\* NewEntry with the value key looked up in nameMap.
BitmapperNewEntry_ValueInNameMap(domainKey, groupKey, nameKey, valueKey, domainMap, groupMap, nameMap, valueMap) ==
    LookUpAll(<<domainKey, groupKey, nameKey, valueKey>>,
              <<domainMap, groupMap, nameMap, nameMap>>,
              <<domainKey, groupKey, nameKey, valueKey, domainMap, groupMap, nameMap, valueMap>>)

\* bitmapper.NewEntry: the four lookups in the order domain, group, name,
\* value, each key in the map of its category.
BitmapperNewEntry(domainKey, groupKey, nameKey, valueKey, domainMap, groupMap, nameMap, valueMap) ==
    LookUpAll(<<domainKey, groupKey, nameKey, valueKey>>,
              <<domainMap, groupMap, nameMap, valueMap>>,
              <<domainKey, groupKey, nameKey, valueKey, domainMap, groupMap, nameMap, valueMap>>)

\* The *BitSet in the k-th field of the bitmapper Entry e points to.
MapField(e, k) == mapEntries[e][FieldNames[k]]

\* The result of e.Equals(o) for two *Entry of package bitmapper.
MapEntryEqualsValue(e, o) ==
    IF e = Nil \/ o = Nil THEN FALSE
    ELSE \A k \in 1 .. 4 : Equals(MapField(e, k), MapField(o, k))

\* A call of e.Equals(o) of package bitmapper: it writes nothing.
MapEntryEquals(e, o) ==
    /\ last' = Call("bitmapper.Entry.Equals", e, o, 0, <<>>, Nil,
                    MapEntryEqualsValue(e, o), "nil")
    /\ steps' = steps + 1
    /\ UNCHANGED <<heap, mem, entries, others>>

-----------------------------------------------------------------------------
(* boolbits.go: the read-only methods run by concurrent readers.  A call   *)
(* is a record of readers; it advances by one iteration of its loop at a   *)
(* time, so that the calls of several readers interleave between the reads *)
(* of the words.                                                           *)

\* A call that a reader has just made: the method, its receiver b, its
\* argument o or i, and its locals: the loop index pc, count (CountOnes),
\* result (And, Or, Xor, Not) and buf (ToHex).  When the call has returned,
\* done holds and ret, val, hex, count and err are what it returned.
Reading(op, b, o, i) ==
    [op |-> op, b |-> b, o |-> o, i |-> i, pc |-> 0, count |-> 0, result |-> <<>>,
     buf |-> <<>>, done |-> FALSE, ret |-> Nil, val |-> FALSE, hex |-> <<>>, err |-> "nil"]

\* The call c after its return statement.
Returned(c, ret, val, hex, err) ==
    [c EXCEPT !.done = TRUE, !.ret = ret, !.val = val, !.hex = hex, !.err = err]

\* The word that And, Or, Xor and Not store in result[i].
ResultWord(op, w, v) ==
    CASE op = "And" -> WordAnd(w, v)
      [] op = "Or" -> WordOr(w, v)
      [] op = "Xor" -> WordXor(w, v)
      [] op = "Not" -> WordNot(w)

\* The call c after the next iteration of its loop, which reads word pc of
\* the receiver (and of the argument) as it is now; the tests made before
\* the loop belong to the first iteration and the return after the loop to
\* the last.  TestBit reads one word.  The BitSet that And, Or, Xor and Not
\* return is the next one allocated.
Iterate(c) ==
    LET w == WordAt(c.b, c.pc)
        lastIteration == c.pc + 1 >= heap[c.b].numWords
        next == [c EXCEPT !.pc = c.pc + 1]
    IN  CASE c.op = "TestBit" ->
                 Returned(c, Nil, TestBit(c.b, c.i).val, <<>>, TestBit(c.b, c.i).err)
          [] c.op = "IsZero" ->
                 IF w # ZeroWord THEN Returned(c, Nil, FALSE, <<>>, "nil")
                 ELSE IF lastIteration THEN Returned(next, Nil, TRUE, <<>>, "nil")
                 ELSE next
          [] c.op = "CountOnes" ->
                 LET counted == [next EXCEPT !.count = c.count + OnesCount64(w)]
                 IN  IF lastIteration THEN Returned(counted, Nil, FALSE, <<>>, "nil")
                     ELSE counted
          [] c.op = "Equals" ->
                 IF c.pc = 0 /\ heap[c.b].NumBits # heap[c.o].NumBits
                 THEN Returned(c, Nil, FALSE, <<>>, "nil")
                 ELSE IF w # WordAt(c.o, c.pc) THEN Returned(c, Nil, FALSE, <<>>, "nil")
                 ELSE IF lastIteration THEN Returned(next, Nil, TRUE, <<>>, "nil")
                 ELSE next
          [] c.op = "ToHex" ->
                 LET filled == [next EXCEPT !.buf = c.buf \o WordBytes(w)]
                 IN  IF lastIteration
                     THEN Returned(filled, Nil, FALSE, EncodeToString(filled.buf), "nil")
                     ELSE filled
          [] c.op \in {"And", "Or", "Xor"} ->
                 IF c.pc = 0 /\ ensureSameSize(c.b, c.o) # "nil"
                 THEN Returned(c, Nil, FALSE, <<>>, ensureSameSize(c.b, c.o))
                 ELSE LET stored == [next EXCEPT !.result =
                                        Append(c.result, ResultWord(c.op, w, WordAt(c.o, c.pc)))]
                      IN  IF lastIteration
                          THEN Returned(stored, Len(heap) + 1, FALSE, <<>>, "nil")
                          ELSE stored
          [] c.op = "Not" ->
                 LET stored == [next EXCEPT !.result =
                                   Append(c.result, ResultWord(c.op, w, w))]
                 IN  IF lastIteration
                     THEN Returned(stored, Len(heap) + 1, FALSE, <<>>, "nil")
                     ELSE stored

\* Not with the complement stored in the word of the receiver as well.
WordsAfterIteration_NotInPlace(c) ==
    IF c.op = "Not"
    THEN [mem EXCEPT ![heap[c.b].Words][c.pc + 1] = WordNot(@)]
    ELSE mem

\* The arrays of the BitSets after an iteration of the call c: the loops
\* assign to locals only, no word of the receiver or of the argument is
\* written.
WordsAfterIteration(c) == mem

\* A reader starts a call.
StartCall(op, b, o, i) ==
    /\ readers' = Append(readers, Reading(op, b, o, i))
    /\ steps' = steps + 1
    /\ UNCHANGED <<heap, mem, entries, last, bitMaps, mapEntries>>

\* The call of reader r makes its next iteration; when it returns, last is
\* its record, and And, Or, Xor and Not allocate the BitSet over result.
ReaderStep(r) ==
    /\ ~readers[r].done
    /\ \E c \in {Iterate(readers[r])} :
           /\ readers' = [readers EXCEPT ![r] = c]
           /\ IF c.done /\ c.ret # Nil
              THEN /\ mem' = Append(WordsAfterIteration(readers[r]), c.result)
                   /\ heap' = Append(heap, BitSet(Len(mem) + 1, heap[c.b].NumBits,
                                                  heap[c.b].numWords))
              ELSE /\ mem' = WordsAfterIteration(readers[r])
                   /\ heap' = heap
           /\ last' = IF c.done THEN Call(c.op, c.b, c.o, c.i, c.hex, c.ret, c.val, c.err)
                      ELSE last
    /\ UNCHANGED <<steps, entries, bitMaps, mapEntries>>

-----------------------------------------------------------------------------
(* The callers: the inputs tried.                                          *)

\* The bit lengths a word-aligned BitSet of the model can have.
ValidNumBits == {WordBits * w : w \in 1 .. MaxWords}

\* Bit lengths passed to the constructors: the invalid sizes of
\* TestNewBitSetInvalidSize and the valid ones.
NumBitsInputs == {-64, 0, 1, 63, 65, 100} \cup ValidNumBits

\* Bit indices passed to SetBit, ClearBit, TestBit on the BitSet b: the two
\* ends of the first word, its bit 5, the last bit, and the indices next to
\* these, out of range or in the second word.
IndexInputs(b) ==
    {-1, 0, 5, WordBits - 1, WordBits, heap[b].NumBits - 1, heap[b].NumBits}

\* The digits of "0123456789abcdef" repeated to n characters.
TestVector(n) == [k \in 1 .. n |-> HexTable[((k - 1) % 16) + 1]]

\* "8", zeros, "1" in n characters: the first and the last digit not zero.
EndsVector(n) == [k \in 1 .. n |-> IF k = 1 THEN "8" ELSE IF k = n THEN "1" ELSE "0"]

\* Arguments <<numBits, hexStr>> passed to NewBitSetFromHex by Spec: the
\* round-trip examples of TestNewBitSetFromHexAndToHex and a second string
\* of each length; the short string of that test; a string of the right
\* length with a character that is no hex digit; a valid string with an
\* invalid length; and a string longer than the length asks for.
HexInputs ==
    {<<n, TestVector(GoDiv(n, NibbleBits))>> : n \in ValidNumBits}
    \cup {<<n, EndsVector(GoDiv(n, NibbleBits))>> : n \in ValidNumBits}
    \cup {<<WordBits, <<"1", "2", "3">>>>,
          <<WordBits, [TestVector(16) EXCEPT ![7] = "g"]>>,
          <<0, TestVector(16)>>,
          <<WordBits, TestVector(32)>>}

Pointers == 1 .. Len(heap)

\* The valid bit indices of the BitSet b.
ValidIndex(b) == 0 .. (heap[b].NumBits - 1)

-----------------------------------------------------------------------------
(* The library driven by an arbitrary caller.                              *)

Init ==
    /\ heap = <<>>
    /\ mem = <<>>
    /\ entries = <<>>
    /\ last = NoCall
    /\ steps = 0
    /\ bitMaps = <<>>
    /\ mapEntries = <<>>
    /\ readers = <<>>

\* The caller has calls left to make.
MoreCalls == steps < MaxSteps

Next ==
    \/ MoreCalls /\ \E n \in NumBitsInputs : NewBitSet(n)
    \/ MoreCalls /\ \E a \in HexInputs : NewBitSetFromHex(a[1], a[2])
    \/ MoreCalls /\ \E b \in Pointers : \E i \in IndexInputs(b) : SetBit(b, i)
    \/ MoreCalls /\ \E b \in Pointers : \E i \in IndexInputs(b) : ClearBit(b, i)
    \/ MoreCalls /\ \E b \in Pointers : \E i \in IndexInputs(b) : CallTestBit(b, i)
    \/ MoreCalls /\ \E b \in Pointers, o \in Pointers : And(b, o)
    \/ MoreCalls /\ \E b \in Pointers, o \in Pointers : Or(b, o)
    \/ MoreCalls /\ \E b \in Pointers, o \in Pointers : Xor(b, o)
    \/ MoreCalls /\ \E b \in Pointers : Not(b)

Spec == Init /\ [][Next]_vars

-----------------------------------------------------------------------------
(* The library with the Entry constructors, driven by a caller that tries  *)
(* fewer inputs: an Entry holds four BitSets.                              *)

\* Bit indices passed to SetBit and ClearBit by SpecEntry.
EntryIndexInputs == {-1, 0, WordBits - 1, WordBits * MaxWords - 1}

NextEntry ==
    \/ MoreCalls /\ \E n \in ValidNumBits \cup {0, 100} : NewAllOnesEntry(n)
    \/ MoreCalls /\ \E n \in ValidNumBits : NewBitSet(n)
    \/ MoreCalls /\ \E n \in ValidNumBits :
                        NewBitSetFromHex(n, TestVector(GoDiv(n, NibbleBits)))
    \/ MoreCalls /\ \E b \in Pointers, i \in EntryIndexInputs : SetBit(b, i)
    \/ MoreCalls /\ \E b \in Pointers, i \in EntryIndexInputs : ClearBit(b, i)
    \/ MoreCalls /\ \E b \in Pointers, o \in Pointers : And(b, o)
    \/ MoreCalls /\ \E b \in Pointers, o \in Pointers : Or(b, o)
    \/ MoreCalls /\ \E b \in Pointers, o \in Pointers : Xor(b, o)
    \/ MoreCalls /\ \E b \in Pointers : Not(b)

SpecEntry == Init /\ [][NextEntry]_vars

-----------------------------------------------------------------------------
(* The codec driven by a caller that builds one BitSet, from a wide range  *)
(* of hex strings or empty, and then makes one call on it.                 *)

\* The hex strings of n characters that are "0" but for one character, which
\* is any lower-case digit, at any position; and those that repeat one
\* upper-case digit.
OneDigitStrings(n) ==
    {[k \in 1 .. n |-> IF k = pos THEN HexTable[v] ELSE "0"] :
        pos \in 1 .. n, v \in 1 .. Len(HexTable)}
    \cup {[k \in 1 .. n |-> HexUpper[v]] : v \in 1 .. Len(HexUpper)}

\* Hex strings passed to NewBitSetFromHex by SpecCodec for the length n.
CodecHexInputs(n) ==
    OneDigitStrings(GoDiv(n, NibbleBits))
    \cup {TestVector(GoDiv(n, NibbleBits)), EndsVector(GoDiv(n, NibbleBits)),
          [k \in 1 .. GoDiv(n, NibbleBits) |-> "f"]}

\* The string s with the character c at position pos.
WithChar(s, pos, c) == [s EXCEPT ![pos] = c]

\* n characters, all c.
Repeat(c, n) == [k \in 1 .. n |-> c]

\* Characters that are no hex digit.
NonHexChars == {"g", "G", "x", " ", "-"}

\* Arguments <<numBits, hexStr>> of NewBitSetFromHex that it rejects, and the
\* mixed-case strings it accepts: every invalid size of
\* TestNewBitSetInvalidSize with an empty string, a valid string of 16
\* digits, a string of 16 characters that are no digits, and a valid string
\* of numBits/4 digits; every valid size with strings that are too short or
\* too long (the "123" of TestNewBitSetFromHexAndToHex, one character less,
\* one more, one word more, none), of digits only and with a character that
\* is no digit; and every valid size with a string of the right length that
\* has a character that is no digit at its first, ninth or last position.
CodecBadInputs ==
    {<<n, s>> : n \in {-64, 0, 1, 63, 65, 100},
                s \in {<<>>, TestVector(16), Repeat("z", 16)}}
    \cup {<<100, TestVector(25)>>, <<65, TestVector(16)>>, <<63, TestVector(15)>>}
    \cup UNION {UNION {{<<n, TestVector(len)>>, <<n, Repeat("g", len)>>,
                        <<n, IF len = 0 THEN <<>> ELSE WithChar(TestVector(len), 1, "x")>>} :
                          len \in {0, 3, GoDiv(n, NibbleBits) - 1,
                                   GoDiv(n, NibbleBits) + 1,
                                   GoDiv(n, NibbleBits) + 16}} :
                   n \in ValidNumBits}
    \cup UNION {{<<n, WithChar(TestVector(GoDiv(n, NibbleBits)), pos, c)>> :
                    pos \in {1, 9, GoDiv(n, NibbleBits)}, c \in NonHexChars} :
                   n \in ValidNumBits}
    \cup {<<n, [k \in 1 .. GoDiv(n, NibbleBits) |->
                    IF k % 2 = 0 THEN HexUpper[(k % 6) + 1] ELSE HexTable[(k % 16) + 1]]>> :
              n \in ValidNumBits}

\* The call before was a constructor and returned a BitSet.
JustBuilt == last.op \in {"NewBitSet", "NewBitSetFromHex"} /\ last.err = "nil"

\* Bit indices passed to SetBit and ClearBit by SpecCodec: every index of an
\* empty BitSet, the indices of IndexInputs of a decoded one.
CodecIndexInputs(b) ==
    IF last.op = "NewBitSet" THEN ValidIndex(b) ELSE IndexInputs(b) \cap ValidIndex(b)

NextCodec ==
    \/ heap = <<>> /\ MoreCalls /\ \E n \in ValidNumBits : NewBitSet(n)
    \/ heap = <<>> /\ MoreCalls /\
          \E a \in UNION {{<<n, s>> : s \in CodecHexInputs(n)} : n \in ValidNumBits}
                      \cup CodecBadInputs :
              NewBitSetFromHex(a[1], a[2])
    \/ JustBuilt /\ \E i \in CodecIndexInputs(last.ret) : SetBit(last.ret, i)
    \/ JustBuilt /\ \E i \in CodecIndexInputs(last.ret) : ClearBit(last.ret, i)
    \/ JustBuilt /\ Not(last.ret)

SpecCodec == Init /\ [][NextCodec]_vars

-----------------------------------------------------------------------------
(* The Entry type driven by a caller that has built four BitSets, as the   *)
(* tests of entry_test.go do first, then builds Entries and makes one call *)
(* on them or on a BitSet.                                                 *)

\* The arguments <<numBits, hexStr>> of the BitSets built first: two with
\* the same contents, one of the same length with other contents, and one
\* that is longer.
BuiltFirst ==
    <<<<WordBits, TestVector(16)>>, <<WordBits, TestVector(16)>>,
      <<WordBits, EndsVector(16)>>,
      <<WordBits * MaxWords, TestVector(16 * MaxWords)>>>>

\* The state after NewBitSetFromHex has built the BitSets of BuiltFirst; the
\* calls counted are those made after it.
InitEntryOps ==
    /\ mem = [k \in 1 .. Len(BuiltFirst) |->
                 DecodeHex(BuiltFirst[k][1], BuiltFirst[k][2]).words]
    /\ heap = [k \in 1 .. Len(BuiltFirst) |->
                  BitSet(k, BuiltFirst[k][1], GoDiv(BuiltFirst[k][1], WordBits))]
    /\ entries = <<>>
    /\ last = NoCall
    /\ steps = 0
    /\ bitMaps = <<>>
    /\ mapEntries = <<>>
    /\ readers = <<>>

\* The tuple t with v at position k.
WithField(t, k, v) == [t EXCEPT ![k] = v]

\* Arguments of NewEntry: the first BitSet in every field; that with one
\* field nil, of other contents, or longer; its twin of equal contents;
\* the longest in every field; three tuples of mixed lengths, two of them
\* with equal contents; and nil in every field.
NewEntryInputs ==
    {<<1, 1, 1, 1>>, <<2, 2, 2, 2>>, <<4, 4, 4, 4>>, <<1, 4, 3, 4>>, <<2, 4, 3, 4>>,
     <<3, 4, 1, 4>>, <<Nil, Nil, Nil, Nil>>}
    \cup {WithField(<<1, 1, 1, 1>>, k, v) : k \in 1 .. 4, v \in {Nil, 3, 4}}

\* Bit lengths passed to NewAllOnesEntry and NewAllZerosEntry: the invalid
\* lengths of TestNewAllZerosEntry_InvalidLengths and the valid ones.
EntryBitLenInputs == {0, 1, 63, 65, 100, 193, -64} \cup ValidNumBits

EntryPointers == 1 .. Len(entries)

\* The call before was a constructor of Entry.
AfterConstructor == last.op \in {"NewEntry", "NewAllOnesEntry", "NewAllZerosEntry"}

\* The caller builds Entries first, at most the two operands of a call, in
\* all its calls but the last.
BuildingEntries ==
    /\ steps < MaxSteps - 1
    /\ Len(entries) < 2
    /\ last.op = "none" \/ AfterConstructor

NextEntryOps ==
    \/ BuildingEntries /\ \E t \in NewEntryInputs : NewEntry(t[1], t[2], t[3], t[4])
    \/ BuildingEntries /\ \E n \in EntryBitLenInputs : NewAllOnesEntry(n)
    \/ BuildingEntries /\ \E n \in EntryBitLenInputs : NewAllZerosEntry(n)
    \/ AfterConstructor /\ \E e, o \in {Nil} \cup EntryPointers : EntryEquals(e, o)
    \/ AfterConstructor /\ \E e, o \in {Nil} \cup EntryPointers : EntryAnd(e, o)
    \/ AfterConstructor /\ \E e, o \in {Nil} \cup EntryPointers : EntryOr(e, o)
    \/ AfterConstructor /\ \E e, o \in {Nil} \cup EntryPointers : EntryXor(e, o)
    \/ AfterConstructor /\ \E e \in {Nil} \cup EntryPointers : EntryNot(e)
    \/ AfterConstructor /\ \E b \in Pointers, i \in EntryIndexInputs : SetBit(b, i)
    \/ AfterConstructor /\ \E b \in Pointers, i \in EntryIndexInputs : ClearBit(b, i)

SpecEntryOps == InitEntryOps /\ [][NextEntryOps]_vars

-----------------------------------------------------------------------------
(* computeBitLength applied to the counts a list of labels can have.       *)

\* The counts passed to computeBitLength: len(uniqueList) is never negative.
CountInputs == 0 .. MaxCount

NextCapacity == MoreCalls /\ \E c \in CountInputs : CallComputeBitLength(c)

SpecCapacity == Init /\ [][NextCapacity]_vars

-----------------------------------------------------------------------------
(* Package bitmapper driven by a caller: GenerateBitMaps once or twice,    *)
(* then one NewEntry with the maps of one call.                            *)

\* The slice of the n labels prefix1, ..., prefixn.
Labels(prefix, n) == [k \in 1 .. n |-> prefix \o ToString(k)] \o <<>>

\* Arguments of GenerateBitMaps: the slices of the tests of
\* bitmapper_test.go; slices that agree with them in one category and not
\* in the others; the labels of one slice in another order; and slices with
\* 63, 64 and 65 distinct labels and with as many as the longest BitSet of
\* the model has bits, some with duplicates appended.
GenerateInputs ==
    {<<<<"domain1", "domain2", "domain1", "domain3">>, <<"groupA", "groupB", "groupA">>,
       <<"nameX", "nameY", "nameY", "nameZ">>, <<"val1", "val2", "val1", "val3", "val2">>>>,
     <<<<>>, <<>>, <<>>, <<>>>>,
     <<<<"a", "b", "c", "a", "b">>, <<>>, <<>>, <<>>>>,
     <<<<"x", "y">>, <<>>, <<>>, <<>>>>,
     <<<<"d1", "d2">>, <<"g1">>, <<"n1", "n2", "n3">>, <<"v1", "v2">>>>,
     <<<<"a", "b", "c", "a", "b">>, <<"g1">>, <<"c", "b", "a">>, <<"x", "y">>>>,
     <<<<"b", "a", "c">>, <<"g1">>, <<"nameX", "nameY", "nameY", "nameZ">>, <<"y", "x", "y">>>>,
     <<Labels("d", WordBits), Labels("g", WordBits + 1) \o Labels("g", 2),
       Labels("n", WordBits - 1), Labels("v", WordBits * MaxWords)>>,
     <<Labels("d", WordBits * (MaxWords - 1) + 1), <<>>,
       Labels("n", WordBits - 1), <<"v2", "v1">> \o Labels("v", WordBits)>>}

\* The pointers to the four maps that the c-th call of GenerateBitMaps
\* returned.
MapsOf(c) == <<4 * c - 3, 4 * c - 2, 4 * c - 1, 4 * c>>

\* The calls of GenerateBitMaps that returned maps.
Generated == 1 .. (Len(bitMaps) \div 4)

\* A key that no slice holds.
Missing == "missing"

\* The keys tried on the map p: the first and the last label assigned, and
\* the missing key.
KeysOf(p) ==
    LET ranked(r) == {val \in DOMAIN bitMaps[p] :
                         \A o \in DOMAIN bitMaps[p] : r * bitMaps[p][val] <= r * bitMaps[p][o]}
    IN  ranked(1) \cup ranked(-1) \cup {Missing}

\* Keys of NewEntry for the maps of the c-th call: present keys and the
\* missing key in every position, as in the cases of
\* TestNewEntry_SuccessAndFailure, with at most two keys missing.
KeyInputs(c) ==
    {t \in KeysOf(MapsOf(c)[1]) \X KeysOf(MapsOf(c)[2]) \X KeysOf(MapsOf(c)[3])
               \X KeysOf(MapsOf(c)[4]) :
        Cardinality({k \in 1 .. 4 : t[k] = Missing}) <= 2}

\* The caller generates maps, at most twice, before it builds an Entry.
Generating ==
    /\ steps < MaxSteps - 1
    /\ Len(bitMaps) < 8
    /\ last.op \in {"none", "GenerateBitMaps"}

\* The call before returned maps; the caller builds an Entry from them or
\* from those of the call before it.
AfterGenerate == MoreCalls /\ last.op = "GenerateBitMaps"

NextBitMaps ==
    \/ Generating /\ \E t \in GenerateInputs : GenerateBitMaps(t[1], t[2], t[3], t[4])
    \/ AfterGenerate /\ \E c \in Generated : \E t \in KeyInputs(c) :
           BitmapperNewEntry(t[1], t[2], t[3], t[4],
                             MapsOf(c)[1], MapsOf(c)[2], MapsOf(c)[3], MapsOf(c)[4])

SpecBitMaps == Init /\ [][NextBitMaps]_vars

-----------------------------------------------------------------------------
(* The two NewEntry constructors driven by a caller that has generated the *)
(* maps of TestNewEntry_SuccessAndFailure first, then builds Entries of    *)
(* both packages from the vectors of the maps and makes one call on a      *)
(* vector or on Entries.                                                   *)

\* The slices of TestNewEntry_SuccessAndFailure.
HolderSlices == <<<<"d1", "d2">>, <<"g1">>, <<"n1", "n2", "n3">>, <<"v1", "v2">>>>

\* The state after GenerateBitMaps has returned the maps of HolderSlices;
\* the calls counted are those made after it.
InitHolders ==
    \E res \in {GenerateBitMapsAt(0, HolderSlices[1], HolderSlices[2], HolderSlices[3],
                                  HolderSlices[4])} :
        /\ mem = [j \in 1 .. Len(res.built) |-> res.built[j].Words]
        /\ heap = [j \in 1 .. Len(res.built) |->
                      BitSet(j, res.built[j].NumBits, res.built[j].numWords)]
        /\ entries = <<>>
        /\ last = NoCall
        /\ steps = 0
        /\ bitMaps = res.maps
        /\ mapEntries = <<>>
        /\ readers = <<>>

\* Keys of bitmapper.NewEntry: those of the successful call of the test,
\* the first key of every map, keys that share the domain or the name with
\* them, and a missing name.
HolderKeyInputs ==
    {<<"d2", "g1", "n3", "v1">>, <<"d1", "g1", "n1", "v1">>, <<"d2", "g1", "n1", "v2">>,
     <<"d1", "g1", Missing, "v1">>}

\* Arguments of boolbits.NewEntry: the vectors the maps hold for the keys
\* above; one vector in two fields, as in TestNewEntry_SuccessAndFailure of
\* entry_test.go; and a nil field.
HolderVectorInputs ==
    {<<bitMaps[1][t[1]], bitMaps[2][t[2]], bitMaps[3][t[3]], bitMaps[4][t[4]]>> :
        t \in {u \in HolderKeyInputs : \A k \in 1 .. 4 : u[k] # Missing}}
    \cup {<<bitMaps[1]["d1"], bitMaps[2]["g1"], bitMaps[1]["d1"], bitMaps[2]["g1"]>>,
          <<bitMaps[1]["d1"], bitMaps[2]["g1"], Nil, bitMaps[4]["v1"]>>}

\* Bit indices set and cleared through a holder: the bits the vectors of
\* the maps have set, and the last bit.
HolderIndexInputs == {0, 1, WordBits - 1}

MapEntryPointers == 1 .. Len(mapEntries)

\* The call before was a constructor of an Entry of either package, or
\* there was none.
BuildingHolders ==
    /\ steps < MaxSteps - 1
    /\ last.op \in {"none", "NewEntry", "bitmapper.NewEntry"}

\* The call before was a constructor of an Entry of either package.
AfterHolder == last.op \in {"NewEntry", "bitmapper.NewEntry"}

NextHolders ==
    \/ BuildingHolders /\ \E t \in HolderVectorInputs : NewEntry(t[1], t[2], t[3], t[4])
    \/ BuildingHolders /\ \E t \in HolderKeyInputs :
           BitmapperNewEntry(t[1], t[2], t[3], t[4], 1, 2, 3, 4)
    \/ AfterHolder /\ \E b \in Pointers, i \in HolderIndexInputs : SetBit(b, i)
    \/ AfterHolder /\ \E b \in Pointers, i \in HolderIndexInputs : ClearBit(b, i)
    \/ AfterHolder /\ \E e, o \in {Nil} \cup EntryPointers : EntryEquals(e, o)
    \/ AfterHolder /\ \E e, o \in {Nil} \cup EntryPointers : EntryAnd(e, o)
    \/ AfterHolder /\ \E e, o \in {Nil} \cup EntryPointers : EntryOr(e, o)
    \/ AfterHolder /\ \E e, o \in {Nil} \cup EntryPointers : EntryXor(e, o)
    \/ AfterHolder /\ \E e \in {Nil} \cup EntryPointers : EntryNot(e)
    \/ AfterHolder /\ \E e, o \in {Nil} \cup MapEntryPointers : MapEntryEquals(e, o)

SpecHolders == InitHolders /\ [][NextHolders]_vars

-----------------------------------------------------------------------------
(* Concurrent readers of BitSets that no one writes: each reader makes one *)
(* call of a read-only method, and the calls advance in any order.         *)

\* The arguments <<numBits, hexStr>> of the BitSets built first: the
\* longest BitSet of the model, one of that length with other contents,
\* one of that length that is zero, and a shorter one.
ReadersBuilt ==
    <<<<WordBits * MaxWords, TestVector(16 * MaxWords)>>,
      <<WordBits * MaxWords, EndsVector(16 * MaxWords)>>,
      <<WordBits * MaxWords, Repeat("0", 16 * MaxWords)>>,
      <<WordBits, TestVector(16)>>>>

\* The BitSet that NewBitSetFromHex builds from ReadersBuilt[k].
BuiltWords(k) == DecodeHex(ReadersBuilt[k][1], ReadersBuilt[k][2]).words

\* The state after NewBitSetFromHex has built the BitSets of ReadersBuilt;
\* no reader has started.
InitReaders ==
    /\ mem = [k \in 1 .. Len(ReadersBuilt) |-> BuiltWords(k)]
    /\ heap = [k \in 1 .. Len(ReadersBuilt) |->
                  BitSet(k, ReadersBuilt[k][1], GoDiv(ReadersBuilt[k][1], WordBits))]
    /\ entries = <<>>
    /\ last = NoCall
    /\ steps = 0
    /\ bitMaps = <<>>
    /\ mapEntries = <<>>
    /\ readers = <<>>

\* The calls <<method, b, o, i>> of the readers, most of them on the first
\* BitSet: every read-only method, with arguments that make the loops end
\* early and late, and the errors of TestBit and And.
ReaderCalls ==
    {<<"TestBit", 1, Nil, 0>>, <<"TestBit", 1, Nil, WordBits * MaxWords - 1>>,
     <<"TestBit", 1, Nil, -1>>,
     <<"CountOnes", 1, Nil, 0>>, <<"IsZero", 1, Nil, 0>>, <<"IsZero", 3, Nil, 0>>,
     <<"ToHex", 1, Nil, 0>>, <<"Not", 1, Nil, 0>>,
     <<"Equals", 1, 1, 0>>, <<"Equals", 1, 2, 0>>, <<"Equals", 1, 4, 0>>,
     <<"And", 1, 2, 0>>, <<"Or", 1, 3, 0>>, <<"Xor", 1, 1, 0>>, <<"And", 1, 4, 0>>}

ReaderIds == 1 .. Len(readers)

\* Another reader may start: steps counts the calls started, each by a
\* reader of its own, and the calls of all of them overlap.
StartingReaders == steps < MaxSteps - 1

NextReaders ==
    \/ StartingReaders /\ \E t \in ReaderCalls : StartCall(t[1], t[2], t[3], t[4])
    \/ \E r \in ReaderIds : ReaderStep(r)

SpecReaders == InitReaders /\ [][NextReaders]_vars

-----------------------------------------------------------------------------
(* Properties.  In a state, last is the call that produced it, so a state  *)
(* predicate on last speaks of the state right after that call; in a step, *)
(* last' is the call the step makes, heap and mem the state before it.     *)

\* n is a positive multiple of 64.
PositiveMultipleOf64(n) == \E w \in 1 .. (MaxWords + 1) : n = 64 * w

\* The step is a call of SetBit or ClearBit that returned nil.
MutationStep == last'.op \in {"SetBit", "ClearBit"} /\ last'.err = "nil"

\* C1: a successful SetBit(i) leaves bit i set and a successful ClearBit(i)
\* leaves it clear, whatever it was; every other bit of that BitSet (every
\* index j # i) reads as before, so TestBit(i) is decided by the most recent
\* call that targeted i, or by the initial contents when there was none; and
\* a SetBit on a set bit or a ClearBit on a clear bit changes nothing.
C1_SetClearTest ==
    [][\A b \in Pointers : \A i \in IndexInputs(b) :
          (MutationStep /\ last'.b = b /\ last'.i = i) =>
              /\ i \in ValidIndex(b)
              /\ TestBit(b, i)' = [val |-> last'.op = "SetBit", err |-> "nil"]
              /\ \A j \in ValidIndex(b) \ {i} : TestBit(b, j)' = TestBit(b, j)
              /\ (TestBit(b, i).val = (last'.op = "SetBit"))
                    => UNCHANGED <<heap, mem>>]_vars

\* Witness of C1: a ClearBit has cleared a bit of a BitSet that has other
\* bits set.
C1_Witness ==
    /\ last.op = "ClearBit"
    /\ last.err = "nil"
    /\ ~TestBit(last.b, last.i).val
    /\ \E j \in ValidIndex(last.b) : TestBit(last.b, j).val
    /\ steps = MaxSteps

\* C2: SetBit(i), ClearBit(i) and TestBit(i) with i < 0 or i >= NumBits
\* return the IndexOutOfRange error and leave every BitSet (struct and
\* words) as it was.
C2_IndexOutOfRange ==
    [][(/\ last'.op \in {"SetBit", "ClearBit", "TestBit"}
        /\ (last'.i < 0 \/ last'.i >= heap[last'.b].NumBits))
          => /\ last'.err = "IndexOutOfRange"
             /\ last'.val = FALSE
             /\ UNCHANGED <<heap, mem>>]_vars

\* Witness of C2: SetBit(n) on a BitSet of length n that holds set bits.
C2_Witness ==
    /\ last.op = "SetBit"
    /\ last.err = "IndexOutOfRange"
    /\ last.i = heap[last.b].NumBits
    /\ ~IsZero(last.b)

\* C3: NewBitSet(numBits) succeeds iff numBits is a positive multiple of 64;
\* then the new BitSet has that length, IsZero() and CountOnes() = 0;
\* otherwise the error is InvalidLength and no BitSet is returned.
C3_NewBitSet ==
    last.op = "NewBitSet" =>
        IF PositiveMultipleOf64(last.i)
        THEN /\ last.err = "nil"
             /\ last.ret \in Pointers
             /\ heap[last.ret].NumBits = last.i
             /\ IsZero(last.ret)
             /\ CountOnes(last.ret) = 0
        ELSE /\ last.err = "InvalidLength"
             /\ last.ret = Nil

\* Witness of C3: NewBitSet has built a BitSet of more than one word.
C3_Witness ==
    /\ last.op = "NewBitSet"
    /\ last.err = "nil"
    /\ heap[last.ret].NumBits = 2 * WordBits

\* The step is a call of And, Or, Xor or Not.
AlgebraStep == last'.op \in {"And", "Or", "Xor", "Not"}

\* The BitSet b has bit i set (TestBit(i) of a valid index).
Bit(b, i) == TestBit(b, i).val

\* C5: bit by bit, And is conjunction, Or is disjunction, Xor is exclusive
\* or and Not is negation of the operands' bits; so Not has
\* NumBits - CountOnes ones; and Not returns no error.
C5_BitwiseSemantics ==
    LET b == last.b
        o == last.o
        r == last.ret
    IN  /\ (last.op \in {"And", "Or", "Xor"} /\ last.err = "nil") =>
              /\ r \in Pointers
              /\ ValidIndex(r) = ValidIndex(b)
              /\ \A i \in ValidIndex(b) :
                    /\ TestBit(r, i).err = "nil"
                    /\ last.op = "And" => (Bit(r, i) <=> (Bit(b, i) /\ Bit(o, i)))
                    /\ last.op = "Or" => (Bit(r, i) <=> (Bit(b, i) \/ Bit(o, i)))
                    /\ last.op = "Xor" => (Bit(r, i) <=> (Bit(b, i) # Bit(o, i)))
        /\ last.op = "Not" =>
              /\ last.err = "nil"
              /\ r \in Pointers
              /\ ValidIndex(r) = ValidIndex(b)
              /\ \A i \in ValidIndex(b) :
                    TestBit(r, i) = [val |-> ~Bit(b, i), err |-> "nil"]
              /\ CountOnes(r) = heap[b].NumBits - CountOnes(b)

\* Witness of C5: a Xor of two different BitSets that have a common set bit
\* and a bit set in one of them only.
C5_Witness ==
    /\ last.op = "Xor"
    /\ last.err = "nil"
    /\ \E i, j \in ValidIndex(last.b) :
          /\ Bit(last.b, i) /\ Bit(last.o, i)
          /\ Bit(last.b, j) /\ ~Bit(last.o, j)

\* The contents of every BitSet that exists before the step are the same
\* after it.
HeapKept == \A p \in Pointers : heap'[p] = heap[p] /\ mem'[heap[p].Words] = mem[heap[p].Words]

\* C6: And, Or, Xor and Not leave every existing BitSet, the receiver and the
\* argument included, as it was (also when both are the same instance);
\* the BitSet returned is a new struct over a new array, which no other
\* BitSet uses; and a later SetBit or ClearBit on a BitSet (a result or an
\* operand) changes the words of no other BitSet.
C6_PureAndUnshared ==
    /\ [][AlgebraStep =>
             /\ HeapKept
             /\ last'.err = "nil" =>
                   /\ last'.ret = Len(heap) + 1
                   /\ Len(heap') = Len(heap) + 1
                   /\ \A p \in Pointers : heap'[last'.ret].Words # heap[p].Words]_vars
    /\ [][MutationStep =>
             \A p \in Pointers \ {last'.b} :
                 heap'[p] = heap[p] /\ mem'[heap[p].Words] = mem[heap[p].Words]]_vars

\* Witness of C6: a bit of the result of b.And(b) has been set, and the
\* result now differs from b.
C6_Witness ==
    /\ last.op = "SetBit"
    /\ last.err = "nil"
    /\ \E b \in Pointers :
          /\ last.b > b
          /\ heap[last.b].NumBits = heap[b].NumBits
          /\ ~IsZero(b)
          /\ \A i \in ValidIndex(b) \ {last.i} : Bit(last.b, i) = Bit(b, i)
          /\ ~Bit(b, last.i)
          /\ Len(heap) = 2

\* C7: And, Or and Xor of two BitSets of different bit lengths return the
\* SizeMismatch error and no BitSet, and leave every BitSet as it was; for
\* equal bit lengths they return a BitSet and no error.
C7_SizeMismatch ==
    [][last'.op \in {"And", "Or", "Xor"} =>
          IF heap[last'.b].NumBits # heap[last'.o].NumBits
          THEN /\ last'.err = "SizeMismatch"
               /\ last'.ret = Nil
               /\ UNCHANGED <<heap, mem>>
          ELSE /\ last'.err = "nil"
               /\ last'.ret # Nil]_vars

\* Witness of C7: an Or of a shorter receiver with a longer argument failed.
C7_Witness ==
    /\ last.op = "Or"
    /\ last.err = "SizeMismatch"
    /\ heap[last.b].NumBits < heap[last.o].NumBits
    /\ ~IsZero(last.b)

\* Every BitSet has a bit length that is a positive multiple of 64 and
\* holds exactly NumBits/64 words (the slice and the field numWords).
WordAligned ==
    \A b \in Pointers :
        /\ heap[b].NumBits > 0
        /\ heap[b].NumBits % 64 = 0
        /\ Len(WordsOf(b)) * 64 = heap[b].NumBits
        /\ heap[b].numWords = Len(WordsOf(b))

\* C4: in every state reached by NewBitSet, NewBitSetFromHex,
\* NewAllOnesEntry, SetBit, ClearBit, And, Or, Xor and Not in any order,
\* every BitSet is word aligned (WordAligned); SetBit and ClearBit change
\* no length; and the result of And, Or, Xor, Not has the bit length and the
\* number of words of its operands.
C4_WordAligned ==
    /\ []WordAligned
    /\ [][\A b \in Pointers :
             /\ heap'[b].NumBits = heap[b].NumBits
             /\ heap'[b].numWords = heap[b].numWords
             /\ Len(mem'[heap'[b].Words]) = Len(mem[heap[b].Words])]_vars
    /\ [][(AlgebraStep /\ last'.err = "nil") =>
             /\ heap'[last'.ret].NumBits = heap[last'.b].NumBits
             /\ Len(mem'[heap'[last'.ret].Words]) = Len(mem[heap[last'.b].Words])
             /\ last'.o # Nil => heap'[last'.ret].NumBits = heap[last'.o].NumBits]_vars

\* Witness of C4: a bit was cleared in a BitSet of two words that And, Or,
\* Xor or Not built after NewAllOnesEntry built an Entry.
C4_Witness ==
    /\ Len(entries) = 1
    /\ entries[1].Domain = 1
    /\ Len(heap) = 5
    /\ heap[5].NumBits = 2 * WordBits
    /\ last.op = "ClearBit"
    /\ last.err = "nil"
    /\ last.b = 5
    /\ ~IsZero(5)

\* The characters 0-9 and a-f.
LowerHexDigits == {HexTable[v] : v \in 1 .. Len(HexTable)}

\* C8: for a valid bit length n and a string s of n/4 characters from
\* [0-9a-f], NewBitSetFromHex(n, s) returns a BitSet and no error, and ToHex
\* of that BitSet is s.
C8_HexRoundTrip ==
    (/\ last.op = "NewBitSetFromHex"
     /\ PositiveMultipleOf64(last.i)
     /\ Len(last.hex) * 4 = last.i
     /\ \A k \in 1 .. Len(last.hex) : last.hex[k] \in LowerHexDigits)
        => /\ last.err = "nil"
           /\ last.ret \in Pointers
           /\ heap[last.ret].NumBits = last.i
           /\ ToHex(last.ret) = last.hex

\* Witness of C8: a BitSet of two words was decoded from a string whose only
\* digit that is not 0 is the "a" at its 20th character.
C8_Witness ==
    /\ last.op = "NewBitSetFromHex"
    /\ last.err = "nil"
    /\ last.hex = [k \in 1 .. 32 |-> IF k = 20 THEN "a" ELSE "0"]
    /\ ToHex(last.ret)[20] = "a"

\* C9: for every BitSet v, NewBitSetFromHex(v.NumBits, v.ToHex()) returns no
\* error and a BitSet that Equals v; and two BitSets are Equals iff their
\* ToHex strings are the same.
C9_EncodeDecode ==
    \A v \in Pointers :
        LET hv == ToHex(v)
            r == DecodeHex(heap[v].NumBits, hv)
            w == BitSet(r.words, heap[v].NumBits, GoDiv(heap[v].NumBits, WordBits))
        IN  /\ r.err = "nil"
            /\ EqualsValue(w, Deref(v))
            /\ Equals(v, v)
            /\ \A o \in Pointers :
                  o > v => LET same == (hv = ToHex(o))
                           IN  (Equals(v, o) <=> same) /\ (Equals(o, v) <=> same)

\* Witness of C9: three BitSets of two words, the first two equal and not
\* zero, the third different, the last built by Not.
C9_Witness ==
    /\ Len(heap) = 3
    /\ heap[1].NumBits = 2 * WordBits
    /\ ~IsZero(1)
    /\ Equals(1, 2)
    /\ ~Equals(2, 3)
    /\ ToHex(1) = ToHex(2)
    /\ last.op = "Not"

\* The hex digit c has the bit k (0 = lowest) of its value set.
DigitBit(c, k) == (FromHexChar(c) \div (2 ^ k)) % 2 = 1

\* C10: ToHex() has NumBits/4 characters, and bit i is set (TestBit(i)) iff
\* the digit at position 16*(i/64) + 15 - (i%64)/4 of ToHex(), counted from
\* 0, has its bit i%4 set.
C10_BitIndexHexLayout ==
    \A v \in Pointers :
        LET h == ToHex(v)
        IN  /\ Len(h) * 4 = heap[v].NumBits
            /\ \A i \in ValidIndex(v) :
                  Bit(v, i) <=>
                      DigitBit(h[16 * (i \div 64) + 15 - ((i % 64) \div 4) + 1], i % 4)

\* Witness of C10: SetBit(69) on an empty BitSet of two words: the one digit
\* of ToHex() that is not 0 is the "2" at position 30, its 31st character.
C10_Witness ==
    /\ last.op = "SetBit"
    /\ last.err = "nil"
    /\ last.i = 69
    /\ CountOnes(last.b) = 1
    /\ ToHex(last.b) = [k \in 1 .. 32 |-> IF k = 31 THEN "2" ELSE "0"]

\* The characters 0-9, a-f and A-F.
HexDigits == LowerHexDigits \cup {HexUpper[v] : v \in 1 .. Len(HexUpper)}

\* The error NewBitSetFromHex(n, s) is to return.
ExpectedHexError(n, s) ==
    IF ~PositiveMultipleOf64(n) THEN "InvalidLength"
    ELSE IF Len(s) * 4 # n THEN "HexLengthMismatch"
    ELSE IF \E k \in 1 .. Len(s) : s[k] \notin HexDigits THEN "HexDecodeError"
    ELSE "nil"

\* C11: NewBitSetFromHex(n, s) returns InvalidLength when n is no positive
\* multiple of 64, whatever s is; otherwise HexLengthMismatch iff
\* len(s) # n/4, also when s has characters that are no hex digits;
\* otherwise HexDecodeError iff s has a character outside [0-9a-fA-F];
\* otherwise no error.  A failing call returns nil and allocates nothing.
C11_FromHexErrorOrder ==
    /\ [](last.op = "NewBitSetFromHex" =>
            /\ last.err = ExpectedHexError(last.i, last.hex)
            /\ last.err # "nil" => last.ret = Nil
            /\ last.err = "nil" => last.ret \in Pointers)
    /\ [][(last'.op = "NewBitSetFromHex" /\ last'.err # "nil")
             => UNCHANGED <<heap, mem, entries>>]_vars

\* Witness of C11: a string that is one character too long and starts with
\* a character that is no hex digit was rejected for its length.
C11_Witness ==
    /\ last.op = "NewBitSetFromHex"
    /\ last.i = 2 * WordBits
    /\ Len(last.hex) = 33
    /\ last.hex[1] = "x"
    /\ last.err = "HexLengthMismatch"
    /\ last.ret = Nil

\* C12: for BitSets a, b of equal length, CountOnes(a.And(b)) +
\* CountOnes(a.Or(b)) = CountOnes(a) + CountOnes(b) and CountOnes(a.Xor(b)) =
\* CountOnes(a.Or(b)) - CountOnes(a.And(b)).  After a call of And, Or or
\* Xor on a and b, the count of the BitSet it returned is taken with
\* CountOnes, and the counts of the other two results from the words And,
\* Or, Xor compute for a and b.
C12_InclusionExclusion ==
    (last.op \in {"And", "Or", "Xor"} /\ last.err = "nil") =>
        LET a == last.b
            b == last.o
            nAnd == IF last.op = "And" THEN CountOnes(last.ret)
                    ELSE CountOnesWords(AndWords(a, b))
            nOr == IF last.op = "Or" THEN CountOnes(last.ret)
                   ELSE CountOnesWords(OrWords(a, b))
            nXor == IF last.op = "Xor" THEN CountOnes(last.ret)
                    ELSE CountOnesWords(XorWords(a, b))
        IN  /\ nAnd + nOr = CountOnes(a) + CountOnes(b)
            /\ nXor = nOr - nAnd

\* Witness of C12: an Or of two BitSets of two words that have common set
\* bits and different counts.
C12_Witness ==
    /\ last.op = "Or"
    /\ last.err = "nil"
    /\ heap[last.b].NumBits = 2 * WordBits
    /\ CountOnesWords(AndWords(last.b, last.o)) > 0
    /\ CountOnes(last.b) > CountOnes(last.o)
    /\ CountOnes(last.ret) > CountOnes(last.b)

\* The call before the step was a.Not(), for the BitSet a, and returned r.
NotBefore(a, r) == last.op = "Not" /\ last.b = a /\ last.ret = r

\* C13: for every BitSet a of length n, a.Not().Not().Equals(a),
\* a.And(a.Not()).IsZero() and a.Or(a.Not()).CountOnes() = n.  Stated of
\* the words Not, And and Or compute after every call of Not, and of the
\* BitSet the call returns for every call Not, And or Or that follows a
\* call a.Not() and is made on its result.
C13_NotComplement ==
    /\ [](last.op = "Not" =>
            LET a == last.b
                r == last.ret
            IN  /\ EqualsValue(BitSet(NotWords(r), heap[r].NumBits, heap[r].numWords),
                               Deref(a))
                /\ IsZeroWords(AndWords(a, r))
                /\ IsZeroWords(AndWords(r, a))
                /\ CountOnesWords(OrWords(a, r)) = heap[a].NumBits
                /\ CountOnesWords(OrWords(r, a)) = heap[a].NumBits)
    /\ [][\A a \in Pointers : \A r \in Pointers : \A p \in 1 .. (Len(heap) + 1) :
             (NotBefore(a, r) /\ last'.ret = p) =>
                 /\ (last'.op = "Not" /\ last'.b = r) =>
                       (Equals(p, a) /\ Equals(a, p))'
                 /\ (last'.op = "And" /\ {last'.b, last'.o} = {a, r}) =>
                       (IsZero(p) /\ CountOnes(p) = 0)'
                 /\ (last'.op = "Or" /\ {last'.b, last'.o} = {a, r}) =>
                       (CountOnes(p) = heap[a].NumBits)']_vars

\* Witness of C13: a BitSet of two words with set and clear bits, its
\* complement, and the Or of the two, which has all 128 bits set.
C13_Witness ==
    /\ Len(heap) = 3
    /\ heap[1].NumBits = 2 * WordBits
    /\ ~IsZero(1)
    /\ ~IsZero(2)
    /\ \A i \in ValidIndex(1) : Bit(2, i) # Bit(1, i)
    /\ last.op = "Or"
    /\ last.b = 1
    /\ last.o = 2
    /\ last.ret = 3
    /\ CountOnes(3) = 2 * WordBits

\* The BitSets a and b have the same length and the same bit at every index.
SameBits(a, b) ==
    /\ heap[a].NumBits = heap[b].NumBits
    /\ \A i \in ValidIndex(a) : TestBit(a, i) = TestBit(b, i)

\* C14: a.Equals(b) is false when the bit lengths differ, also for two
\* all-zero BitSets, and otherwise true iff TestBit agrees at every index;
\* Equals is reflexive, symmetric and transitive; and a SetBit or ClearBit
\* that changes one bit of a BitSet makes it unequal to every BitSet it
\* was equal to.
C14_Equals ==
    /\ [](\A a \in Pointers :
            /\ Equals(a, a)
            /\ \A b \in Pointers :
                  /\ Equals(a, b) <=> Equals(b, a)
                  /\ heap[a].NumBits # heap[b].NumBits => ~Equals(a, b)
                  /\ a < b => (Equals(a, b) <=> SameBits(a, b))
                  /\ \A c \in Pointers :
                        (Equals(a, b) /\ Equals(b, c)) => Equals(a, c))
    /\ [][\A b \in Pointers : \A i \in IndexInputs(b) : \A p \in Pointers \ {b} :
             (/\ MutationStep /\ last'.b = b /\ last'.i = i
              /\ TestBit(b, i).val # (last'.op = "SetBit")
              /\ Equals(b, p))
                 => (~Equals(b, p) /\ ~Equals(p, b))']_vars

\* Witness of C14: two BitSets of two words with set bits that were equal
\* until SetBit set one bit of the second word of one of them.
C14_Witness ==
    /\ Len(heap) = 2
    /\ heap[1].NumBits = 2 * WordBits
    /\ heap[2].NumBits = 2 * WordBits
    /\ last.op = "SetBit"
    /\ last.err = "nil"
    /\ last.i >= WordBits
    /\ ~IsZero(3 - last.b)
    /\ ~Equals(1, 2)
    /\ \A i \in ValidIndex(1) \ {last.i} : Bit(1, i) = Bit(2, i)

\* The number of indices of b at which TestBit is true.
SetIndices(b) == Cardinality({i \in ValidIndex(b) : TestBit(b, i).val})

\* C15: for every BitSet of length n, CountOnes() is the number of indices
\* i in [0, n) with TestBit(i) true, so 0 <= CountOnes() <= n, and IsZero()
\* iff CountOnes() = 0; a successful SetBit(i) raises CountOnes by 1 when bit
\* i was clear and by 0 when it was set, and a successful ClearBit(i) lowers
\* it by 1 when bit i was set and by 0 when it was clear.
C15_CountOnes ==
    /\ [](\A b \in Pointers :
            LET count == CountOnes(b)
            IN  /\ count = SetIndices(b)
                /\ count >= 0
                /\ count <= heap[b].NumBits
                /\ IsZero(b) <=> count = 0)
    /\ [][\A b \in Pointers : \A i \in IndexInputs(b) :
             (MutationStep /\ last'.b = b /\ last'.i = i) =>
                 CountOnes(b)' = CountOnes(b)
                     + (IF last'.op = "SetBit"
                        THEN (IF TestBit(b, i).val THEN 0 ELSE 1)
                        ELSE (IF TestBit(b, i).val THEN -1 ELSE 0))]_vars

\* Witness of C15: ClearBit cleared bit 63 of the BitSet decoded from
\* "8000000000000001", which leaves one bit set.
C15_Witness ==
    /\ last.op = "ClearBit"
    /\ last.err = "nil"
    /\ last.i = WordBits - 1
    /\ heap[last.b].NumBits = WordBits
    /\ CountOnes(last.b) = 1
    /\ TestBit(last.b, 0).val
    /\ ~IsZero(last.b)

\* C16: NewEntry(domain, group, name, value) returns the MissingField error
\* and no Entry iff at least one of the four arguments is nil; with four
\* BitSets it returns an Entry and no error, whatever their bit lengths
\* are, also when they differ from one another.
C16_NewEntry ==
    /\ [](last.op = "NewEntry" =>
            IF \E k \in 1 .. 4 : last.args[k] = Nil
            THEN last.err = "MissingField" /\ last.ret = Nil
            ELSE last.err = "nil" /\ last.ret = Len(entries))
    /\ [][last'.op = "NewEntry" =>
             /\ UNCHANGED <<heap, mem>>
             /\ last'.err # "nil" => UNCHANGED entries
             /\ last'.err = "nil" => Len(entries') = Len(entries) + 1]_vars

\* Witness of C16: NewEntry returned an Entry whose fields have three
\* BitSets of two different lengths.
C16_Witness ==
    /\ last.op = "NewEntry"
    /\ last.err = "nil"
    /\ last.ret \in EntryPointers
    /\ heap[last.args[1]].NumBits # heap[last.args[2]].NumBits
    /\ heap[last.args[2]].NumBits = heap[last.args[4]].NumBits
    /\ last.args[3] \notin {last.args[1], last.args[2]}

\* The BitSet NewBitSet(n) returns after SetBit(i) was called for every i
\* in [0, n): word i/64 has the bit uint64(1) << (i%64) of each of them.
EveryBitSet(n) ==
    BitSet([k \in 1 .. GoDiv(n, WordBits) |->
               UNION {WordOr(ZeroWord, OneShl(GoRem(i, WordBits))) :
                         i \in {j \in 0 .. (n - 1) : GoDiv(j, WordBits) = k - 1}}],
           n, GoDiv(n, WordBits))

\* C17: NewAllOnesEntry(bitLength) returns an Entry and no error iff
\* bitLength is a positive multiple of 64, and otherwise the InvalidLength
\* error and no Entry; each field of the Entry has the length bitLength and
\* CountOnes() = bitLength, the four fields are Equals to one another and
\* to a NewBitSet(bitLength) with every bit set by SetBit, and the hex form
\* (ToHex, and String after its "0x") is bitLength/4 characters "f".
C17_NewAllOnesEntry ==
    last.op = "NewAllOnesEntry" =>
        IF PositiveMultipleOf64(last.i)
        THEN /\ last.err = "nil"
             /\ last.ret = Len(entries)
             /\ last.ret # Nil
             /\ \A k \in 1 .. 4 :
                   LET f == Field(last.ret, k)
                   IN  /\ heap[f].NumBits = last.i
                       /\ CountOnes(f) = last.i
                       /\ \A j \in 1 .. 4 : Equals(f, Field(last.ret, j))
                       /\ EqualsValue(Deref(f), EveryBitSet(last.i))
                       /\ EqualsValue(EveryBitSet(last.i), Deref(f))
                       /\ ToHex(f) = Repeat("f", last.i \div 4)
                       /\ String(f) = <<"0", "x">> \o Repeat("f", last.i \div 4)
        ELSE /\ last.err = "InvalidLength"
             /\ last.ret = Nil

\* Witness of C17: NewAllOnesEntry(128) returned the second Entry, whose
\* Value has 128 bits set.
C17_Witness ==
    /\ last.op = "NewAllOnesEntry"
    /\ last.err = "nil"
    /\ last.i = 2 * WordBits
    /\ last.ret = 2
    /\ CountOnes(Field(2, 4)) = 2 * WordBits
    /\ Len(ToHex(Field(2, 1))) = 32

\* C18: NewAllZerosEntry(bitLength) returns an Entry and no error iff
\* bitLength is a positive multiple of 64, and otherwise (for 0, 1, 63, 65,
\* 100, 193, -64) the InvalidLength error and no Entry; each field of the
\* Entry has NumBits = bitLength and CountOnes() = 0, and the hex form
\* (String after its "0x") is bitLength/4 characters "0".
C18_NewAllZerosEntry ==
    last.op = "NewAllZerosEntry" =>
        IF PositiveMultipleOf64(last.i)
        THEN /\ last.err = "nil"
             /\ last.ret = Len(entries)
             /\ last.ret # Nil
             /\ \A k \in 1 .. 4 :
                   LET f == Field(last.ret, k)
                   IN  /\ heap[f].NumBits = last.i
                       /\ CountOnes(f) = 0
                       /\ SetIndices(f) = 0
                       /\ String(f) = <<"0", "x">> \o Repeat("0", last.i \div 4)
        ELSE /\ last.err = "InvalidLength"
             /\ last.ret = Nil

\* Witness of C18: NewAllZerosEntry(128) returned an Entry after a call
\* NewAllZerosEntry(193) had failed.
C18_Witness ==
    /\ last.op = "NewAllZerosEntry"
    /\ last.err = "nil"
    /\ last.i = 2 * WordBits
    /\ last.ret = 1
    /\ steps = 2
    /\ Len(String(Field(1, 3))) = 34

\* C19: e.Equals(o) on Entries is false when e or o is nil, also when both
\* are; for two Entries it is true iff the BitSets of Domain, of Group, of
\* Name and of Value are Equals, that is, have the same length and the same
\* bits, so it is false when one field differs in contents or in length.
C19_EntryEquals ==
    last.op = "Entry.Equals" =>
        LET e == last.b
            o == last.o
        IN  /\ last.err = "nil"
            /\ (e = Nil \/ o = Nil) => ~last.val
            /\ (e # Nil /\ o # Nil) =>
                  /\ last.val <=> \A k \in 1 .. 4 : Equals(Field(e, k), Field(o, k))
                  /\ last.val <=> \A k \in 1 .. 4 : SameBits(Field(e, k), Field(o, k))
                  /\ \A k \in 1 .. 4 :
                        heap[Field(e, k)].NumBits # heap[Field(o, k)].NumBits => ~last.val

\* Witness of C19: Equals returned false for two Entries whose Domain,
\* Group and Name are equal and whose Values have the same length and
\* other contents.
C19_Witness ==
    /\ last.op = "Entry.Equals"
    /\ last.b # Nil
    /\ last.o # Nil
    /\ last.b # last.o
    /\ ~last.val
    /\ \A k \in 1 .. 3 : Equals(Field(last.b, k), Field(last.o, k))
    /\ heap[Field(last.b, 4)].NumBits = heap[Field(last.o, 4)].NumBits
    /\ ~Equals(Field(last.b, 4), Field(last.o, 4))

\* The step is a call of Entry.And, Entry.Or, Entry.Xor or Entry.Not.
EntryAlgebraStep == last'.op \in {"Entry.And", "Entry.Or", "Entry.Xor", "Entry.Not"}

\* The k-th fields of the Entries e and o have the same bit length.
SameFieldLength(e, o, k) == heap[Field(e, k)].NumBits = heap[Field(o, k)].NumBits

\* C20: for two Entries e and o whose corresponding fields have equal bit
\* lengths (the fields of one Entry may differ in length), e.And(o),
\* e.Or(o) and e.Xor(o) return no error and a new Entry of four new
\* BitSets, each the And, Or, Xor of the corresponding fields of e and o,
\* bit by bit; e.Not() does so for every Entry e, with the complement of
\* each field; and these calls leave every BitSet and every Entry that
\* existed, e and o included, as it was.
C20_EntryAlgebra ==
    /\ [](LET e == last.b
              o == last.o
              r == last.ret
          IN  /\ (/\ last.op \in {"Entry.And", "Entry.Or", "Entry.Xor"}
                  /\ e # Nil /\ o # Nil
                  /\ \A k \in 1 .. 4 : SameFieldLength(e, o, k)) =>
                    /\ last.err = "nil"
                    /\ r = Len(entries)
                    /\ \A k \in 1 .. 4 :
                          LET x == Field(e, k)
                              y == Field(o, k)
                              z == Field(r, k)
                          IN  /\ heap[z].NumBits = heap[x].NumBits
                              /\ \A i \in ValidIndex(x) :
                                    /\ TestBit(z, i).err = "nil"
                                    /\ last.op = "Entry.And" =>
                                          (Bit(z, i) <=> (Bit(x, i) /\ Bit(y, i)))
                                    /\ last.op = "Entry.Or" =>
                                          (Bit(z, i) <=> (Bit(x, i) \/ Bit(y, i)))
                                    /\ last.op = "Entry.Xor" =>
                                          (Bit(z, i) <=> (Bit(x, i) # Bit(y, i)))
              /\ (last.op = "Entry.Not" /\ e # Nil) =>
                    /\ last.err = "nil"
                    /\ r = Len(entries)
                    /\ \A k \in 1 .. 4 :
                          LET x == Field(e, k)
                              z == Field(r, k)
                          IN  /\ heap[z].NumBits = heap[x].NumBits
                              /\ \A i \in ValidIndex(x) :
                                    TestBit(z, i) = [val |-> ~Bit(x, i), err |-> "nil"])
    /\ [][EntryAlgebraStep =>
             /\ HeapKept
             /\ \A p \in EntryPointers : entries'[p] = entries[p]
             /\ last'.err = "nil" =>
                   /\ last'.ret = Len(entries) + 1
                   /\ Len(entries') = Len(entries) + 1
                   /\ \A k \in 1 .. 4 :
                         /\ entries'[last'.ret][FieldNames[k]] = Len(heap) + k
                         /\ heap'[Len(heap) + k].Words = Len(mem) + k]_vars

\* Witness of C20: a Xor of two Entries whose fields have two different
\* lengths; their Domains have a common set bit and other contents.
C20_Witness ==
    /\ last.op = "Entry.Xor"
    /\ last.err = "nil"
    /\ last.b # last.o
    /\ heap[Field(last.b, 1)].NumBits # heap[Field(last.b, 2)].NumBits
    /\ \E i \in ValidIndex(Field(last.b, 1)) :
          Bit(Field(last.b, 1), i) /\ Bit(Field(last.o, 1), i)
    /\ ~IsZero(Field(last.ret, 1))
    /\ IsZero(Field(last.ret, 2))

-----------------------------------------------------------------------------
\* The errors of Entry.And/Or/Xor that name a field.
FieldSizeMismatches == {FieldSizeMismatch(k) : k \in 1 .. 4}

\* The step is a call of Entry.And, Entry.Or or Entry.Xor.
EntryBinaryStep == last'.op \in {"Entry.And", "Entry.Or", "Entry.Xor"}

\* C21: Entry.And/Or/Xor return MissingField when the receiver or the
\* argument is nil; otherwise they return a FieldSizeMismatch iff some pair
\* of corresponding fields differs in bit length, and the field the error
\* names is one whose lengths differ; a failing call returns no Entry,
\* allocates no BitSet (no field operation was applied before the length
\* tests were done), adds no Entry and leaves every BitSet and every Entry,
\* both operands included, as it was.
C21_EntryErrors ==
    /\ [](last.op \in {"Entry.And", "Entry.Or", "Entry.Xor"} =>
             LET e == last.b
                 o == last.o
             IN  /\ (e = Nil \/ o = Nil) => last.err = "MissingField"
                 /\ (e # Nil /\ o # Nil) =>
                       /\ last.err # "MissingField"
                       /\ last.err \in FieldSizeMismatches <=>
                             \E k \in 1 .. 4 : ~SameFieldLength(e, o, k)
                       /\ \A k \in 1 .. 4 :
                             last.err = FieldSizeMismatch(k) => ~SameFieldLength(e, o, k)
                 /\ last.err # "nil" => last.ret = Nil)
    /\ [][(EntryBinaryStep /\ last'.err # "nil") =>
             /\ heap' = heap
             /\ mem' = mem
             /\ entries' = entries]_vars

\* Witness of C21: a call whose operands have Domains of one length and
\* differ in the length of Group and of Value; the error names Group.
C21_Witness ==
    /\ last.op \in {"Entry.And", "Entry.Or", "Entry.Xor"}
    /\ last.b # Nil /\ last.o # Nil
    /\ last.err = "FieldSizeMismatch:Group"
    /\ last.ret = Nil
    /\ SameFieldLength(last.b, last.o, 1)
    /\ ~SameFieldLength(last.b, last.o, 2)
    /\ ~SameFieldLength(last.b, last.o, 4)

-----------------------------------------------------------------------------
\* Every field of the Entry e is all zero, as in an Entry that
\* NewAllZerosEntry returns.
AllZeros(e) == \A k \in 1 .. 4 : IsZero(Field(e, k))

\* Every field of the Entry e has CountOnes equal to its bit length, as in
\* an Entry that NewAllOnesEntry returns.
AllOnes(e) == \A k \in 1 .. 4 : CountOnes(Field(e, k)) = heap[Field(e, k)].NumBits

\* The Entries r and e are Equals field by field.
FieldsEqual(r, e) == \A k \in 1 .. 4 : Equals(Field(r, k), Field(e, k))

\* C22: with Z an all-zeros Entry, U an all-ones Entry and e an Entry whose
\* fields have the bit lengths of the fields of Z (of U), the calls below
\* return no error, and Z.And(e) is all zero in every field, Z.Or(e) and
\* Z.Xor(e) equal e field by field, U.And(e) equals e field by field,
\* U.And(U) and U.Or(U) are all ones, U.Xor(U) and U.Not() are all zero, and
\* Z.Not() is all ones (CountOnes = bit length in every field).
C22_ZerosOnesIdentities ==
    LET z == last.b
        e == last.o
        r == last.ret
    IN  /\ (/\ last.op \in {"Entry.And", "Entry.Or", "Entry.Xor"}
            /\ z # Nil /\ e # Nil
            /\ AllZeros(z) \/ AllOnes(z)
            /\ \A k \in 1 .. 4 : SameFieldLength(z, e, k)) =>
              /\ last.err = "nil"
              /\ r # Nil
              /\ (last.op = "Entry.And" /\ AllZeros(z)) => AllZeros(r)
              /\ (last.op \in {"Entry.Or", "Entry.Xor"} /\ AllZeros(z)) => FieldsEqual(r, e)
              /\ (last.op = "Entry.And" /\ AllOnes(z)) => FieldsEqual(r, e)
              /\ (last.op \in {"Entry.And", "Entry.Or"} /\ AllOnes(z) /\ AllOnes(e)) =>
                    AllOnes(r)
              /\ (last.op = "Entry.Xor" /\ AllOnes(z) /\ AllOnes(e)) => AllZeros(r)
        /\ (last.op = "Entry.Not" /\ z # Nil /\ (AllZeros(z) \/ AllOnes(z))) =>
              /\ last.err = "nil"
              /\ r # Nil
              /\ AllOnes(z) => AllZeros(r)
              /\ AllZeros(z) => AllOnes(r)

\* Witness of C22: U.And(e) has returned an Entry equal to e, where U is
\* all ones and e is neither all zero nor all ones in any field.
C22_Witness ==
    /\ last.op = "Entry.And"
    /\ last.err = "nil"
    /\ last.b # last.o
    /\ AllOnes(last.b)
    /\ \A k \in 1 .. 4 :
          /\ ~IsZero(Field(last.o, k))
          /\ CountOnes(Field(last.o, k)) < heap[Field(last.o, k)].NumBits
    /\ FieldsEqual(last.ret, last.o)
    /\ ~FieldsEqual(last.ret, last.b)

-----------------------------------------------------------------------------
\* n is a positive multiple of 64, of any size.
IsCapacity(n) == n > 0 /\ n % 64 = 0

\* C23: for every count c >= 0 of distinct labels, computeBitLength(c) is
\* the smallest positive multiple of 64 that is >= c: 64 for c = 0, c
\* itself when c is a positive multiple of 64, and ((c / 64) + 1) * 64
\* otherwise.
C23_Capacity ==
    last.op = "computeBitLength" =>
        LET c == last.i
            r == last.ret
        IN  /\ c >= 0
            /\ IsCapacity(r)
            /\ r >= c
            /\ \A m \in 1 .. (r - 1) : ~(IsCapacity(m) /\ m >= c)
            /\ c = 0 => r = 64
            /\ IsCapacity(c) => r = c
            /\ (c > 0 /\ ~IsCapacity(c)) => r = ((c \div 64) + 1) * 64

\* Witness of C23: the count 128, a multiple of 64, is kept as it is.
C23_Witness ==
    /\ last.op = "computeBitLength"
    /\ last.i = 128
    /\ last.ret = 128

-----------------------------------------------------------------------------
\* The indices of b at which TestBit is true.
OneBits(b) == {i \in ValidIndex(b) : Bit(b, i)}

\* The 0-based rank of each label of the slice input in the order of first
\* occurrence: the number of distinct labels that occur before its first
\* occurrence.
RankIn(input) ==
    LET first == [x \in Values(input) |->
                     Least({k \in 1 .. Len(input) : input[k] = x})] @@ <<>>
    IN  [x \in Values(input) |-> Cardinality({y \in Values(input) : first[y] < first[x]})]
        @@ <<>>

\* The call was a GenerateBitMaps that returned maps.
Mapped == last.op = "GenerateBitMaps" /\ last.err = "nil"

\* C24: the map GenerateBitMaps returns for a category has exactly one entry
\* for each distinct label of the slice given; the vector of a label has
\* CountOnes() = 1, its one bit at the label's 0-based rank in the order of
\* first occurrence; the set-bit indices are pairwise distinct and are
\* exactly 0 .. distinctCount-1; all vectors of the map have one bit length,
\* a multiple of 64 that holds distinctCount bits; and for distinct labels
\* x, y the And of their vectors IsZero and the Or has CountOnes() = 2.
C24_GenerateBitMaps ==
    Mapped =>
        \A k \in 1 .. 4 :
            LET input == last.args[k]
                bsMap == bitMaps[last.ret[k]]
                rank == RankIn(input)
                distinctCount == Cardinality(Values(input))
                ones == [x \in DOMAIN bsMap |-> OneBits(bsMap[x])] @@ <<>>
            IN  /\ DOMAIN bsMap = Values(input)
                /\ Cardinality(DOMAIN bsMap) = distinctCount
                /\ \A x \in DOMAIN bsMap :
                      /\ bsMap[x] \in Pointers
                      /\ CountOnes(bsMap[x]) = 1
                      /\ TestBit(bsMap[x], rank[x]) = [val |-> TRUE, err |-> "nil"]
                      /\ ones[x] = {rank[x]}
                      /\ IsCapacity(heap[bsMap[x]].NumBits)
                      /\ heap[bsMap[x]].NumBits >= distinctCount
                /\ UNION {ones[x] : x \in DOMAIN bsMap} = 0 .. (distinctCount - 1)
                /\ \A x, y \in DOMAIN bsMap :
                      /\ heap[bsMap[x]].NumBits = heap[bsMap[y]].NumBits
                      /\ x # y =>
                            /\ bsMap[x] # bsMap[y]
                            /\ ones[x] # ones[y]
                            /\ ensureSameSize(bsMap[x], bsMap[y]) = "nil"
                            /\ IsZeroWords(AndWords(bsMap[x], bsMap[y]))
                            /\ CountOnesWords(OrWords(bsMap[x], bsMap[y])) = 2

\* Witness of C24: a slice with duplicates after the first occurrences and
\* a slice in descending order; "c" has rank 2 in the one and 0 in the other.
C24_Witness ==
    /\ Mapped
    /\ last.args[1] = <<"a", "b", "c", "a", "b">>
    /\ last.args[3] = <<"c", "b", "a">>
    /\ Cardinality(DOMAIN bitMaps[last.ret[1]]) = 3
    /\ OneBits(bitMaps[last.ret[1]]["c"]) = {2}
    /\ OneBits(bitMaps[last.ret[3]]["c"]) = {0}
    /\ OneBits(bitMaps[last.ret[3]]["a"]) = {2}

-----------------------------------------------------------------------------
\* C25: GenerateBitMaps returns no error, whatever the four slices are:
\* the bit length computed for a category is a valid length of NewBitSet
\* and every index given to SetBit is below the count of distinct labels,
\* which is at most that length (as it is for every count up to MaxCount);
\* every key of the maps returned points to a BitSet; and an empty slice
\* gives an empty map, and no error.
C25_GenerateNeverFails ==
    last.op = "GenerateBitMaps" =>
        /\ last.err = "nil"
        /\ \A c \in CountInputs :
              ~InvalidNumBits(computeBitLength(c)) /\ c <= computeBitLength(c)
        /\ \A k \in 1 .. 4 :
              LET count == Len(dedup(last.args[k]))
                  bitlen == computeBitLength(count)
                  bsMap == bitMaps[last.ret[k]]
              IN  /\ last.ret[k] \in 1 .. Len(bitMaps)
                  /\ ~InvalidNumBits(bitlen)
                  /\ count <= bitlen
                  /\ \A idx \in 0 .. (count - 1) : idx < count /\ idx < bitlen
                  /\ \A val \in DOMAIN bsMap :
                        /\ bsMap[val] \in Pointers
                        /\ heap[bsMap[val]].NumBits = bitlen
                        /\ \E idx \in 0 .. (count - 1) : Bit(bsMap[val], idx)
                  /\ last.args[k] = <<>> => DOMAIN bsMap = {}

\* Witness of C25: a call with an empty slice and a slice with duplicates
\* that has as many distinct labels as its vectors have bits; the last
\* index given to SetBit is the last bit.
C25_Witness ==
    /\ last.op = "GenerateBitMaps"
    /\ last.err = "nil"
    /\ last.args[2] = <<>>
    /\ DOMAIN bitMaps[last.ret[2]] = {}
    /\ Len(last.args[4]) > Cardinality(DOMAIN bitMaps[last.ret[4]])
    /\ \E val \in DOMAIN bitMaps[last.ret[4]] :
          LET b == bitMaps[last.ret[4]][val]
          IN  /\ Cardinality(DOMAIN bitMaps[last.ret[4]]) = heap[b].NumBits
              /\ Bit(b, heap[b].NumBits - 1)

-----------------------------------------------------------------------------
\* The key of the k-th category given to the NewEntry call of last, and the
\* map given for that category.
KeyGiven(k) == last.args[k]

MapGiven(k) == bitMaps[last.args[4 + k]]

\* C26: bitmapper.NewEntry returns no error iff every key is in the map of
\* its own category; otherwise the error is a KeyNotFound that names a
\* category whose lookup missed, with the key that is missing there, and no
\* Entry is returned or allocated; on success the Entry returned is new and
\* each of its fields is the pointer that the map of the category holds
\* for the key.  The call changes no BitSet and no map.
C26_BitmapperNewEntry ==
    /\ [](last.op = "bitmapper.NewEntry" =>
             /\ last.err = "nil" <=> \A k \in 1 .. 4 : KeyGiven(k) \in DOMAIN MapGiven(k)
             /\ last.err # "nil" =>
                   /\ last.ret = Nil
                   /\ \E k \in 1 .. 4 :
                         /\ last.err = KeyNotFound(k)
                         /\ last.i = k
                         /\ last.hex = KeyGiven(k)
                         /\ KeyGiven(k) \notin DOMAIN MapGiven(k)
             /\ last.err = "nil" =>
                   /\ last.ret = Len(mapEntries)
                   /\ \A k \in 1 .. 4 :
                         mapEntries[last.ret][FieldNames[k]] = MapGiven(k)[KeyGiven(k)])
    /\ [][last'.op = "bitmapper.NewEntry" =>
             /\ UNCHANGED <<heap, mem, bitMaps, entries>>
             /\ last'.err # "nil" => UNCHANGED mapEntries
             /\ last'.err = "nil" =>
                   /\ Len(mapEntries') = Len(mapEntries) + 1
                   /\ \A p \in 1 .. Len(mapEntries) : mapEntries'[p] = mapEntries[p]]_vars

\* Witness of C26: the domain key and the group key are present, the name
\* key and the value key are missing; the error names the name category.
C26_Witness ==
    /\ last.op = "bitmapper.NewEntry"
    /\ last.err = "KeyNotFound:name"
    /\ last.hex = Missing
    /\ last.ret = Nil
    /\ KeyGiven(1) \in DOMAIN MapGiven(1)
    /\ KeyGiven(2) \in DOMAIN MapGiven(2)
    /\ KeyGiven(4) \notin DOMAIN MapGiven(4)

-----------------------------------------------------------------------------
\* The contents of the BitSet q points to after the step.
DerefNext(q) == BitSet(mem'[heap'[q].Words], heap'[q].NumBits, heap'[q].numWords)

\* C29: each map that GenerateBitMaps returns is a function of the slice of
\* its own category: its keys and the contents of its vectors are those
\* that dedup and assign give for that slice alone, whatever the other
\* three slices are and whatever was allocated before; so of two calls in
\* a row that agree in the slice of a category, the second returns for
\* that category a map with the same keys and, for each key, a vector that
\* Equals the one of the first (same bit length, same set bit), in another
\* instance; the first call's vectors are unchanged.
C29_CategoriesIndependent ==
    /\ [](Mapped =>
             \A k \in 1 .. 4 :
                 LET alone == dedup(last.args[k])
                     vectors == assign(alone).built
                     bsMap == bitMaps[last.ret[k]]
                 IN  /\ DOMAIN bsMap = Values(alone)
                     /\ \A x \in DOMAIN bsMap :
                           Deref(bsMap[x]) = vectors[IndexOf(alone, x) + 1])
    /\ [][(Mapped /\ last'.op = "GenerateBitMaps") =>
             /\ last'.err = "nil"
             /\ HeapKept
             /\ \A k \in 1 .. 4 :
                   last'.args[k] = last.args[k] =>
                       /\ DOMAIN bitMaps'[last'.ret[k]] = DOMAIN bitMaps[last.ret[k]]
                       /\ \A x \in DOMAIN bitMaps[last.ret[k]] :
                             /\ bitMaps'[last'.ret[k]][x] # bitMaps[last.ret[k]][x]
                             /\ EqualsValue(DerefNext(bitMaps'[last'.ret[k]][x]),
                                            Deref(bitMaps[last.ret[k]][x]))
                             /\ EqualsValue(DerefNext(bitMaps'[last'.ret[k]][x]),
                                            DerefNext(bitMaps[last.ret[k]][x]))]_vars

\* Witness of C29: the second of two calls that agree in the domain slice
\* (with "c" in it) and in no other; the name slice of the second holds "c"
\* too, at another rank.
C29_Witness ==
    /\ Mapped
    /\ Len(bitMaps) = 8
    /\ last.args[1] = <<"a", "b", "c", "a", "b">>
    /\ DOMAIN bitMaps[1] = DOMAIN bitMaps[5]
    /\ \A k \in 2 .. 4 : DOMAIN bitMaps[k] # DOMAIN bitMaps[4 + k]
    /\ "c" \in DOMAIN bitMaps[7]
    /\ bitMaps[1]["c"] # bitMaps[5]["c"]
    /\ Equals(bitMaps[1]["c"], bitMaps[5]["c"])
    /\ ~Equals(bitMaps[7]["c"], bitMaps[5]["c"])

-----------------------------------------------------------------------------
\* The BitSet p is after the step as it was before it: its struct and the
\* contents of its array.
Kept(p) == heap'[p] = heap[p] /\ mem'[heap[p].Words] = mem[heap[p].Words]

\* The call before the step was a NewAllOnesEntry or NewAllZerosEntry that
\* returned the Entry last.ret.
Constructed == last.op \in {"NewAllOnesEntry", "NewAllZerosEntry"} /\ last.err = "nil"

\* C27: the Entry that NewAllOnesEntry or NewAllZerosEntry returns holds
\* four new BitSets, pairwise distinct, over four new arrays, pairwise
\* distinct; so a SetBit or ClearBit on one of its fields changes the bits
\* of that field only: the other three fields of the Entry and every field
\* of every other Entry are as they were, and no Entry changes.
C27_FieldsIndependent ==
    /\ [][(last'.op \in {"NewAllOnesEntry", "NewAllZerosEntry"} /\ last'.err = "nil") =>
             /\ last'.ret = Len(entries) + 1
             /\ \A k \in 1 .. 4 :
                   /\ entries'[last'.ret][FieldNames[k]] = Len(heap) + k
                   /\ heap'[Len(heap) + k].Words = Len(mem) + k]_vars
    /\ [][(Constructed /\ MutationStep) =>
             \A k \in 1 .. 4 :
                 last'.b = Field(last.ret, k) =>
                     /\ entries' = entries
                     /\ \A j \in (1 .. 4) \ {k} :
                           /\ Field(last.ret, j) # last'.b
                           /\ Kept(Field(last.ret, j))
                     /\ \A e \in EntryPointers \ {last.ret} :
                           \A j \in 1 .. 4 : Kept(Field(e, j))
                     /\ \A i \in ValidIndex(last'.b) :
                           (GoRem(i, WordBits) \in
                                mem'[heap'[last'.b].Words][GoDiv(i, WordBits) + 1])
                           = IF i = last'.i THEN last'.op = "SetBit"
                             ELSE Bit(last'.b, i)]_vars

\* Witness of C27: the last bit of the Name of the second Entry, built all
\* ones, has been cleared; its other fields and the fields of the first
\* Entry, built all ones too, are all ones.
C27_Witness ==
    /\ last.op = "ClearBit"
    /\ last.err = "nil"
    /\ Len(entries) = 2
    /\ last.b = Field(2, 3)
    /\ last.i = heap[last.b].NumBits - 1
    /\ CountOnes(Field(2, 3)) = heap[last.b].NumBits - 1
    /\ \A j \in {1, 2, 4} : CountOnes(Field(2, j)) = heap[Field(2, j)].NumBits
    /\ AllOnes(1)
    /\ \A j, k \in 1 .. 4 : j # k => Field(1, j) # Field(1, k)

-----------------------------------------------------------------------------
(* C28: the Entries of both packages hold the vectors they were built from. *)

\* Bit i of the BitSet q points to, in the state after the step.
BitNext(q, i) == GoRem(i, WordBits) \in mem'[heap'[q].Words][GoDiv(i, WordBits) + 1]

\* The vectors the mappings hold.
MapVectors == UNION {{bitMaps[m][key] : key \in DOMAIN bitMaps[m]} : m \in 1 .. Len(bitMaps)}

\* The call before built an Entry of either package.
Held == last.op \in {"NewEntry", "bitmapper.NewEntry"} /\ last.err = "nil"

\* The first holder of the k-th vector of the Entry built by the call
\* before: the reference passed to boolbits.NewEntry, or the mapping entry
\* bitmapper.NewEntry has looked the k-th key up in.
Original(k) ==
    IF last.op = "NewEntry" THEN last.args[k] ELSE bitMaps[last.args[4 + k]][last.args[k]]

\* The k-th field of the Entry built by the call before.
Stored(k) == IF last.op = "NewEntry" THEN Field(last.ret, k) ELSE MapField(last.ret, k)

\* The holders there are: the fields of the Entries of both packages and
\* the entries of the mappings.
AllHolders ==
    {Field(e, j) : e \in EntryPointers, j \in 1 .. 4}
    \cup {MapField(e, j) : e \in MapEntryPointers, j \in 1 .. 4}
    \cup MapVectors

\* A read through the holder q after the step sees what SetBit or ClearBit
\* has just written through last'.b, and the other bits as they were.
Observes(q) ==
    \A i \in ValidIndex(last'.b) :
        BitNext(q, i) = IF i = last'.i THEN last'.op = "SetBit" ELSE Bit(last'.b, i)

\* C28: boolbits.NewEntry stores the four references it is given and
\* bitmapper.NewEntry the four references its maps hold for the keys, without
\* allocating a BitSet; a successful SetBit or ClearBit right after, made
\* through the first holder (the reference given, the mapping entry of the
\* key) or through the field of the new Entry, is seen through both, and
\* through every field of an Entry of either package and every mapping
\* entry that was built from or holds that vector, and no holder is
\* re-pointed; Entry.And, Entry.Or, Entry.Xor, Entry.Not and Entry.Equals
\* of both packages leave the mappings and every vector a mapping holds as
\* they were.
C28_SharedInstances ==
    /\ [][(last'.op = "NewEntry" /\ last'.err = "nil") =>
             /\ heap' = heap /\ mem' = mem
             /\ last'.ret = Len(entries) + 1
             /\ \A k \in 1 .. 4 : entries'[last'.ret][FieldNames[k]] = last'.args[k]]_vars
    /\ [][(last'.op = "bitmapper.NewEntry" /\ last'.err = "nil") =>
             /\ heap' = heap /\ mem' = mem /\ bitMaps' = bitMaps
             /\ last'.ret = Len(mapEntries) + 1
             /\ \A k \in 1 .. 4 :
                    mapEntries'[last'.ret][FieldNames[k]]
                        = bitMaps[last'.args[4 + k]][last'.args[k]]]_vars
    /\ [][(Held /\ MutationStep) =>
             /\ entries' = entries /\ mapEntries' = mapEntries /\ bitMaps' = bitMaps
             /\ \A k \in 1 .. 4 :
                    (last'.b = Original(k) \/ last'.b = Stored(k)) =>
                        /\ Observes(Original(k))
                        /\ Observes(Stored(k))
                        /\ \A q \in AllHolders : q = Original(k) => Observes(q)]_vars
    /\ [][last'.op \in {"Entry.And", "Entry.Or", "Entry.Xor", "Entry.Not", "Entry.Equals",
                        "bitmapper.Entry.Equals"} =>
             /\ bitMaps' = bitMaps
             /\ \A q \in MapVectors : Kept(q)]_vars

\* SetBit has just set the last bit, which no vector of the maps had set,
\* through a vector that a mapping, a field of a boolbits Entry and a field
\* of a bitmapper Entry hold, and the bit reads as set through each of them.
C28_Witness ==
    /\ last.op = "SetBit" /\ last.err = "nil" /\ last.i = WordBits - 1
    /\ last.b \in MapVectors
    /\ \E e \in EntryPointers, m \in MapEntryPointers :
           /\ Field(e, 1) = last.b /\ MapField(m, 1) = last.b
           /\ Bit(Field(e, 1), last.i) /\ Bit(MapField(m, 1), last.i)
           /\ Bit(bitMaps[1]["d2"], last.i)

-----------------------------------------------------------------------------
(* C30: the read-only methods under concurrent readers.                    *)

\* The BitSets built before the readers started are as they were built.
BuiltUnchanged ==
    \A k \in 1 .. Len(ReadersBuilt) :
        /\ heap[k] = BitSet(k, ReadersBuilt[k][1], GoDiv(ReadersBuilt[k][1], WordBits))
        /\ mem[k] = BuiltWords(k)

\* The BitSet the call c has returned is a new one of the length of the
\* receiver that holds words.
ReturnedBitSet(c, words) ==
    /\ c.err = "nil"
    /\ c.ret \in Pointers \ (1 .. Len(ReadersBuilt))
    /\ Deref(c.ret) = BitSet(words, heap[c.b].NumBits, heap[c.b].numWords)

\* What the call c has returned is what the method returns when it runs
\* alone on the BitSets.
AsAlone(c) ==
    CASE c.op = "TestBit" ->
             c.val = TestBit(c.b, c.i).val /\ c.err = TestBit(c.b, c.i).err
      [] c.op = "CountOnes" -> c.count = CountOnes(c.b)
      [] c.op = "IsZero" -> c.val = IsZero(c.b)
      [] c.op = "Equals" -> c.val = Equals(c.b, c.o)
      [] c.op = "ToHex" -> c.hex = ToHex(c.b)
      [] c.op \in {"And", "Or", "Xor"} ->
             IF ensureSameSize(c.b, c.o) # "nil"
             THEN c.err = ensureSameSize(c.b, c.o) /\ c.ret = Nil
             ELSE ReturnedBitSet(c, CASE c.op = "And" -> AndWords(c.b, c.o)
                                      [] c.op = "Or" -> OrWords(c.b, c.o)
                                      [] c.op = "Xor" -> XorWords(c.b, c.o))
      [] c.op = "Not" -> ReturnedBitSet(c, NotWords(c.b))

\* C30: while readers run TestBit, CountOnes, IsZero, Equals, ToHex, And,
\* Or, Xor and Not on the same BitSets, their iterations interleaved in any
\* order and no SetBit or ClearBit among them, the BitSets stay as they
\* were built, and every call that has returned has returned what the
\* method returns when it runs alone; the BitSets that And, Or, Xor and Not
\* return are new ones.
C30_ConcurrentReaders ==
    /\ BuiltUnchanged
    /\ \A r \in ReaderIds : readers[r].done => AsAlone(readers[r])

\* A reader is in the loop of Not, one word read, while a reader that
\* started later on the same BitSet, which has more than one word, has
\* returned from CountOnes with the number of its one-bits.
C30_Witness ==
    \E r1, r2 \in ReaderIds :
        /\ r1 < r2
        /\ readers[r1].b = readers[r2].b
        /\ heap[readers[r1].b].numWords > 1
        /\ readers[r1].op = "Not" /\ ~readers[r1].done /\ readers[r1].pc > 0
        /\ readers[r2].op = "CountOnes" /\ readers[r2].done
        /\ readers[r2].count = CountOnes(readers[r2].b)
        /\ readers[r2].count > 0

=============================================================================
